---- MODULE Spec2Model ----
(***************************************************************************)
(* Renewable-energy investment calculator: the financial and energy        *)
(* projection engine (utils/calculations.ts, utils/enhancedCalculations),  *)
(* the input forms and App state that feed it, and the validation and      *)
(* imputation layer (utils/dataProcessor.ts, utils/mlDataIntegration,      *)
(* utils/mlEnhancedCalculations.ts).                                       *)
(*                                                                         *)
(* JavaScript numbers are modelled as exact extended rationals: a record   *)
(* [n, d] with d > 0 in lowest terms is the rational n/d, d = 0 gives the  *)
(* three IEEE special values (+Infinity, -Infinity, NaN).  The sign of     *)
(* zero is not modelled; rounding of binary64 is modelled where it decides *)
(* a branch: the accumulated irr += 0.1 of calculateIRR.                   *)
(***************************************************************************)
EXTENDS Integers, Sequences, FiniteSets, TLC

VARIABLES
  energySources,    \* form state: EnergySourceConfig[]
  systemParams,     \* form state: Partial<SystemParameters>
  financialParams,  \* form state: FinancialParameters
  mlResults,        \* EnhancedInputForm state: MLIntegratedData | null
  activeTab,        \* App state
  inputMode,        \* App state
  integratedData,   \* App state: MLIntegratedData | null
  results,          \* App state: CalculatedResults | null
  enhanced,         \* the MLIntegratedData the enhanced calculations last ran on
  edits,            \* how many form edits and navigations have happened
  mlModel,          \* mlCalculator: what its network predicts for the App's input
  localStorageManager,  \* the LocalStorageManager instance and its calls in flight
  errorHandler,     \* the ErrorHandler instance
  lastOp            \* history: the handler that ran last, with its arguments

vars == <<energySources, systemParams, financialParams, mlResults, activeTab,
          inputMode, integratedData, results, enhanced, edits, mlModel,
          localStorageManager, errorHandler, lastOp>>

\* the two utility singletons
services == <<localStorageManager, errorHandler>>

\* the state of the App and its forms
app == <<energySources, systemParams, financialParams, mlResults, activeTab, inputMode,
         integratedData, results, enhanced, edits, mlModel, lastOp>>

-----------------------------------------------------------------------------
(* Bounds of the model *)

MaxSources == 2
MaxLifetime == 3
MaxEdits == 3
MaxCallers == 2
MaxOpens == 3
MaxErrors == 3

-----------------------------------------------------------------------------
(* JavaScript numbers *)

Abs(i) == IF i < 0 THEN -i ELSE i

SgnInt(i) == IF i < 0 THEN -1 ELSE IF i > 0 THEN 1 ELSE 0

RECURSIVE GCD(_, _)
GCD(a, b) == IF b = 0 THEN a ELSE GCD(b, a % b)

NaN == [n |-> 0, d |-> 0]
PosInf == [n |-> 1, d |-> 0]
NegInf == [n |-> -1, d |-> 0]

Norm(n, d) ==
  LET g == GCD(Abs(n), d) IN [n |-> n \div g, d |-> d \div g]

\* the number n/d, d > 0
Q(n, d) == Norm(n, d)

\* the integer i
R(i) == [n |-> i, d |-> 1]

Zero == R(0)
One == R(1)

IsNaN(x) == x.d = 0 /\ x.n = 0
IsFinite(x) == x.d > 0
Sgn(x) == SgnInt(x.n)
Signed(s) == IF s > 0 THEN PosInf ELSE IF s < 0 THEN NegInf ELSE NaN

Neg(x) == [n |-> -x.n, d |-> x.d]

Add(a, b) ==
  IF IsNaN(a) \/ IsNaN(b) THEN NaN
  ELSE IF a.d = 0 /\ b.d = 0 THEN (IF a.n = b.n THEN a ELSE NaN)
  ELSE IF a.d = 0 THEN a
  ELSE IF b.d = 0 THEN b
  ELSE LET g == GCD(a.d, b.d)
       IN Norm(a.n * (b.d \div g) + b.n * (a.d \div g), (a.d \div g) * b.d)

Sub(a, b) == Add(a, Neg(b))

Mul(a, b) ==
  IF IsNaN(a) \/ IsNaN(b) THEN NaN
  ELSE IF a.d = 0 \/ b.d = 0 THEN Signed(Sgn(a) * Sgn(b))
  ELSE LET g1 == GCD(Abs(a.n), b.d)
           g2 == GCD(Abs(b.n), a.d)
       IN Norm((a.n \div g1) * (b.n \div g2), (a.d \div g2) * (b.d \div g1))

\* x / y of JavaScript: a finite non-zero number over 0 is an infinity, 0/0 is NaN
Div(a, b) ==
  IF IsNaN(a) \/ IsNaN(b) THEN NaN
  ELSE IF b.d = 0 THEN (IF a.d = 0 THEN NaN ELSE Zero)
  ELSE IF b.n = 0 THEN Signed(Sgn(a))
  ELSE IF a.d = 0 THEN Signed(Sgn(a) * Sgn(b))
  ELSE Mul(a, [n |-> SgnInt(b.n) * b.d, d |-> Abs(b.n)])

\* a < b of JavaScript (false when either side is NaN)
Lt(a, b) ==
  /\ ~IsNaN(a)
  /\ ~IsNaN(b)
  /\ IF a.d = 0 /\ b.d = 0 THEN a.n < b.n
     ELSE IF a.d = 0 THEN a.n < 0
     ELSE IF b.d = 0 THEN b.n > 0
     ELSE a.n * b.d < b.n * a.d

Le(a, b) == ~IsNaN(a) /\ ~IsNaN(b) /\ ~Lt(b, a)
Gt(a, b) == Lt(b, a)
Ge(a, b) == Le(b, a)

\* Math.pow(a, k) for an integer k >= 0
RECURSIVE Pow(_, _)
Pow(a, k) == IF k = 0 THEN One ELSE Mul(a, Pow(a, k - 1))

\* Math.pow(a, e) for a number e that is NaN or a non-negative integer
PowNum(a, e) == IF IsFinite(e) THEN Pow(a, e.n) ELSE NaN

\* the truthiness of a number: x || fallback takes the fallback for 0 and NaN
Truthy(x) == ~IsNaN(x) /\ x # Zero
OrElse(x, fallback) == IF Truthy(x) THEN x ELSE fallback

\* how many times  for (year = 1; year <= limit; year++)  runs its body
LoopCount(limit) ==
  IF IsFinite(limit) /\ limit.n >= limit.d THEN limit.n \div limit.d ELSE 0

RECURSIVE SumSeq(_)
SumSeq(s) == IF s = <<>> THEN Zero ELSE Add(SumSeq(SubSeq(s, 1, Len(s) - 1)), s[Len(s)])

SelectEnabled(sources) == SelectSeq(sources, LAMBDA s : s.enabled)

Null == <<>>
Some(x) == <<x>>

\* a field that is absent from a Partial<...> record (undefined)
Undefined == [n |-> 0, d |-> -1]

\* ToNumber: undefined is NaN in arithmetic
Num(x) == IF x = Undefined THEN NaN ELSE x

-----------------------------------------------------------------------------
(* utils/calculations.ts: the energy model *)

EnergyTypes == {"solar", "wind", "hydro", "wave"}

Source(type, enabled, capacity, efficiency, costPerKw, hours, degradation, opCosts) ==
  [type |-> type, enabled |-> enabled, capacity |-> capacity,
   efficiency |-> efficiency, costPerKw |-> costPerKw,
   dailyProductionHours |-> hours, degradationRate |-> degradation,
   specificOperationalCosts |-> opCosts]

\* the production of one source with the degradation left out
DegradedProductionMutant(source, year) ==
  Mul(Mul(source.capacity, source.dailyProductionHours), R(365))

\* baseProduction * Math.pow(1 - degradationRate / 100, year) of one source
DegradedProduction(source, year) ==
  LET baseProduction == Mul(Mul(source.capacity, source.dailyProductionHours), R(365))
  IN Mul(baseProduction, Pow(Sub(One, Div(source.degradationRate, R(100))), year))

\* annualProduction of the enabled sources in the year with degradation exponent `year`
AnnualProductionMutant(sources, year) ==
  SumSeq([i \in 1..Len(sources) |-> DegradedProduction(sources[i], year)])

\* annualProduction with one rate, the mean of the enabled sources' rates,
\* applied to the sum of the base productions
AnnualProductionBlended(sources, year) ==
  LET enabled == SelectEnabled(sources)
      rate == Div(SumSeq([i \in 1..Len(enabled) |-> enabled[i].degradationRate]),
                  R(Len(enabled)))
  IN Mul(SumSeq([i \in 1..Len(enabled) |-> DegradedProduction(enabled[i], 0)]),
         Pow(Sub(One, Div(rate, R(100))), year))

AnnualProduction(sources, year) ==
  LET enabled == SelectEnabled(sources)
  IN SumSeq([i \in 1..Len(enabled) |-> DegradedProduction(enabled[i], year)])

\* how many times  for (year = 0; year < limit; year++)  runs its body
LoopCountLt(limit) ==
  IF IsFinite(limit) /\ limit.n > 0 THEN (limit.n + limit.d - 1) \div limit.d ELSE 0

\* the yearlyEnergy array calculateFinancialMetrics builds (index k holds year k-1's exponent)
YearlyEnergy(sp) ==
  [k \in 1..LoopCountLt(sp.operationalLifetime) |-> AnnualProduction(sp.energySources, k - 1)]

DailyProduction(sources) ==
  LET enabled == SelectEnabled(sources)
  IN SumSeq([i \in 1..Len(enabled) |->
              Mul(enabled[i].capacity, enabled[i].dailyProductionHours)])

CalculateEnergyGeneration(sp) ==
  LET dailyProduction == DailyProduction(sp.energySources)
  IN [daily |-> dailyProduction,
      monthly |-> Mul(dailyProduction, R(30)),
      yearly |-> Mul(dailyProduction, R(365)),
      lifetime |-> [y \in 1..LoopCount(sp.operationalLifetime) |->
                      [year |-> y, energy |-> AnnualProduction(sp.energySources, y - 1)]]]

\* calculateCarbonReduction taking the first-year energy for every year
CalculateCarbonReductionMutant(sp, energyGeneration) ==
  LET yearlyReductions ==
        [i \in 1..Len(energyGeneration.lifetime) |->
           [year |-> energyGeneration.lifetime[i].year,
            reduction |-> Mul(energyGeneration.yearly, sp.gridEmissionFactor)]]
      lifetimeReduction ==
        SumSeq([i \in 1..Len(yearlyReductions) |-> yearlyReductions[i].reduction])
  IN [daily |-> Mul(energyGeneration.daily, sp.gridEmissionFactor),
      yearly |-> Mul(energyGeneration.yearly, sp.gridEmissionFactor),
      lifetime |-> lifetimeReduction,
      financialBenefit |-> Mul(Div(lifetimeReduction, R(1000)), R(190)),
      yearlyReduction |-> yearlyReductions]

CalculateCarbonReduction(sp, energyGeneration) ==
  LET yearlyReductions ==
        [i \in 1..Len(energyGeneration.lifetime) |->
           [year |-> energyGeneration.lifetime[i].year,
            reduction |-> Mul(energyGeneration.lifetime[i].energy, sp.gridEmissionFactor)]]
      lifetimeReduction ==
        SumSeq([i \in 1..Len(yearlyReductions) |-> yearlyReductions[i].reduction])
  IN [daily |-> Mul(energyGeneration.daily, sp.gridEmissionFactor),
      yearly |-> Mul(energyGeneration.yearly, sp.gridEmissionFactor),
      lifetime |-> lifetimeReduction,
      financialBenefit |-> Mul(Div(lifetimeReduction, R(1000)), R(190)),
      yearlyReduction |-> yearlyReductions]

-----------------------------------------------------------------------------
(* utils/calculations.ts: the cash-flow builder *)

\* monthlyPayment: the annuity formula, or loanAmount / numberOfPayments at zero interest
MonthlyPaymentMutant(loanAmount, interestRate, financingYears) ==
  LET monthlyInterestRate == Div(Div(interestRate, R(100)), R(12))
      numberOfPayments == Mul(financingYears, R(12))
      growth == PowNum(Add(One, monthlyInterestRate), numberOfPayments)
  IN IF Gt(interestRate, Zero)
     THEN Div(Mul(loanAmount, Mul(monthlyInterestRate, growth)), Sub(growth, One))
     ELSE Div(loanAmount, financingYears)

MonthlyPayment(loanAmount, interestRate, financingYears) ==
  LET monthlyInterestRate == Div(Div(interestRate, R(100)), R(12))
      numberOfPayments == Mul(financingYears, R(12))
      growth == PowNum(Add(One, monthlyInterestRate), numberOfPayments)
  IN IF Gt(interestRate, Zero)
     THEN Div(Mul(loanAmount, Mul(monthlyInterestRate, growth)), Sub(growth, One))
     ELSE Div(loanAmount, numberOfPayments)

YearlyLoanPayment(sp, fp) ==
  Mul(MonthlyPayment(sp.totalInstallationCost, fp.interestRate, fp.financingYears), R(12))

\* loanPayment = year <= financingYears ? yearlyLoanPayment : 0
LoanPaymentMutant(fp, year, yearlyLoanPayment) ==
  IF Le(R(year), Add(fp.financingYears, One)) THEN yearlyLoanPayment ELSE Zero

LoanPayment(fp, year, yearlyLoanPayment) ==
  IF Le(R(year), fp.financingYears) THEN yearlyLoanPayment ELSE Zero

CurrentElectricityPrice(fp, year) ==
  Mul(fp.electricityPrice,
      Pow(Add(One, Div(fp.electricityPriceIncrease, R(100))), year - 1))

\* the row that opens the schedule: { year: 0, cashFlow: -totalInstallationCost, cumulativeCashFlow }
InitialRowMutant(sp) ==
  [year |-> 0, cashFlow |-> Neg(sp.totalInstallationCost), cumulativeCashFlow |-> Zero]

InitialRow(sp) ==
  [year |-> 0, cashFlow |-> Neg(sp.totalInstallationCost),
   cumulativeCashFlow |-> Neg(sp.totalInstallationCost)]

\* the loop  for (year = 1; year <= operationalLifetime; year++)  goes on at `year`
CashFlowLoopGoesOnMutant(sp, year) == Lt(R(year), sp.operationalLifetime)

CashFlowLoopGoesOn(sp, year) == Le(R(year), sp.operationalLifetime)

\* one pass of the loop body: the row of `year`, given the cumulative total so far
CashFlowRow(sp, fp, energyProduction, yearlyLoanPayment, year, cumulativeSoFar) ==
  LET revenue == Mul(Num(energyProduction), CurrentElectricityPrice(fp, year))
      loanPayment == LoanPayment(fp, year, yearlyLoanPayment)
      yearlyOperationalCosts == sp.totalOperationalCosts
      cashFlow == Sub(Sub(revenue, yearlyOperationalCosts), loanPayment)
  IN [year |-> year, cashFlow |-> cashFlow,
      cumulativeCashFlow |-> Add(cumulativeSoFar, cashFlow)]

RECURSIVE CashFlowLoop(_, _, _, _, _, _)
CashFlowLoop(sp, fp, yearlyEnergy, yearlyLoanPayment, year, rows) ==
  IF ~CashFlowLoopGoesOn(sp, year) THEN rows
  ELSE CashFlowLoop(sp, fp, yearlyEnergy, yearlyLoanPayment, year + 1,
         Append(rows,
           CashFlowRow(sp, fp,
                       IF year <= Len(yearlyEnergy) THEN yearlyEnergy[year] ELSE Undefined,
                       yearlyLoanPayment, year,
                       rows[Len(rows)].cumulativeCashFlow)))

CalculateYearlyCashFlows(sp, fp, yearlyEnergy) ==
  CashFlowLoop(sp, fp, yearlyEnergy, YearlyLoanPayment(sp, fp), 1, <<InitialRow(sp)>>)

-----------------------------------------------------------------------------
(* utils/calculations.ts: the financial metrics *)

RECURSIVE CalculateNPVFrom(_, _, _)
CalculateNPVFrom(cashFlows, discountRate, k) ==
  IF k = 0 THEN Zero
  ELSE Add(CalculateNPVFrom(cashFlows, discountRate, k - 1),
           Div(cashFlows[k], Pow(Add(One, Div(discountRate, R(100))), k - 1)))

CalculateNPV(cashFlows, discountRate) ==
  CalculateNPVFrom(cashFlows, discountRate, Len(cashFlows))

\* findIndex(value => value >= 0): the one-based position, 0 when there is none
PositiveIndex(cumulativeCashFlows) ==
  LET hits == {i \in 1..Len(cumulativeCashFlows) : Ge(cumulativeCashFlows[i], Zero)}
  IN IF hits = {} THEN 0 ELSE CHOOSE i \in hits : \A j \in hits : i <= j

AbsNum(x) == IF x.n < 0 THEN Neg(x) ELSE x

\* calculatePaybackPeriod interpolating with the value of the later year
CalculatePaybackPeriodMutant(cumulativeCashFlows) ==
  LET positiveIndex == PositiveIndex(cumulativeCashFlows) - 1
  IN IF positiveIndex <= 0 THEN Zero
     ELSE LET previousYear == positiveIndex - 1
              previousValue == cumulativeCashFlows[previousYear + 1]
              currentValue == cumulativeCashFlows[positiveIndex + 1]
          IN Add(R(previousYear),
                 Div(AbsNum(currentValue), Sub(currentValue, previousValue)))

CalculatePaybackPeriod(cumulativeCashFlows) ==
  LET positiveIndex == PositiveIndex(cumulativeCashFlows) - 1
  IN IF positiveIndex <= 0 THEN Zero
     ELSE LET previousYear == positiveIndex - 1
              previousValue == cumulativeCashFlows[previousYear + 1]
              currentValue == cumulativeCashFlows[positiveIndex + 1]
          IN Add(R(previousYear),
                 Div(AbsNum(previousValue), Sub(currentValue, previousValue)))

CalculateROI(totalInvestment, totalReturns) ==
  Mul(Div(Sub(totalReturns, totalInvestment), totalInvestment), R(100))

CalculateLCOE(totalCosts, totalEnergy) == Div(totalCosts, totalEnergy)

\* calculateFinancialMetrics; irr is not part of this record
CalculateFinancialMetrics(sp, fp) ==
  LET yearlyEnergy == YearlyEnergy(sp)
      totalEnergyProduction == SumSeq(yearlyEnergy)
      yearlyCashFlows == CalculateYearlyCashFlows(sp, fp, yearlyEnergy)
      cashFlowValues == [i \in 1..Len(yearlyCashFlows) |-> yearlyCashFlows[i].cashFlow]
      cumulativeCashFlows ==
        [i \in 1..Len(yearlyCashFlows) |-> yearlyCashFlows[i].cumulativeCashFlow]
      totalCosts == Add(sp.totalInstallationCost,
                        Mul(sp.totalOperationalCosts, sp.operationalLifetime))
      totalReturns == SumSeq(SelectSeq(cashFlowValues, LAMBDA cf : Gt(cf, Zero)))
  IN [npv |-> CalculateNPV(cashFlowValues, fp.discountRate),
      paybackPeriod |-> CalculatePaybackPeriod(cumulativeCashFlows),
      roi |-> CalculateROI(sp.totalInstallationCost, totalReturns),
      lcoe |-> CalculateLCOE(totalCosts, totalEnergyProduction),
      yearlyCashFlows |-> yearlyCashFlows]

-----------------------------------------------------------------------------
(* utils/enhancedCalculations: the weather-adjusted cash-flow builder *)

\* yearlyProduction of the loop body for `year`, scaled by each source's weather factor
WeatherAdjustedProduction(sp, weatherFactors, year) ==
  LET enabled == SelectEnabled(sp.energySources)
  IN SumSeq([i \in 1..Len(enabled) |->
       Mul(Mul(Mul(Mul(enabled[i].capacity, enabled[i].dailyProductionHours), R(365)),
               Num(weatherFactors[enabled[i].type])),
           Pow(Sub(One, Div(enabled[i].degradationRate, R(100))), year - 1))])

\* the loan computation, the opening row and the loop body are the text of
\* calculateYearlyCashFlows; only the production of each year differs
CalculateWeatherAdjustedCashFlows(sp, fp, weatherFactors) ==
  CashFlowLoop(sp, fp,
               [y \in 1..LoopCount(sp.operationalLifetime) |->
                  WeatherAdjustedProduction(sp, weatherFactors, y)],
               YearlyLoanPayment(sp, fp), 1, <<InitialRow(sp)>>)

-----------------------------------------------------------------------------
(* utils/localStorageManager.ts: LocalStorageManager.  Its methods are async: *)
(* a call runs to its first pending await, other calls run meanwhile, and the *)
(* call goes on when the awaited request settles.  `opened` counts the runs   *)
(* of initializeIndexedDB, `openFailures` the requests that ended in onerror, *)
(* `storedWithoutDb` records a storeInIndexedDB that found db null.           *)

StorageOps == {"initialize", "storeData", "retrieveData", "queryData"}

Callers == 1..MaxCallers

\* the instance getInstance() constructs
NewLocalStorageManager ==
  [db |-> Null, isInitialized |-> FALSE, opened |-> 0, openFailures |-> 0,
   storedWithoutDb |-> FALSE,
   calls |-> [c \in Callers |-> [op |-> "none", at |-> "idle"]]]

\* new ErrorHandler(): private errorLog: ErrorReport[] = [].  `handled` counts
\* the errors handled so far, `clearedAt` is its value at the last
\* clearErrorLog, `now` is the clock in milliseconds and `limit` bounds `handled`
NewErrorHandler ==
  [errorLog |-> <<>>, handled |-> 0, clearedAt |-> 0, now |-> 0, limit |-> MaxErrors]

ServicesConstructed ==
  /\ localStorageManager = NewLocalStorageManager
  /\ errorHandler = NewErrorHandler

\* where a call stands once initialisation is behind it: storeInIndexedDB
\* rejects when db is null, getFromIndexedDB and queryIndexedDB resolve with
\* nothing, and otherwise a request on the database is pending
AfterInitialize(m, op) ==
  CASE op = "initialize" -> "done"
    [] op = "storeData" -> IF m.db = Null THEN "failed" ELSE "request"
    [] OTHER -> IF m.db = Null THEN "done" ELSE "request"

\* a method is called: if (!this.isInitialized) await this.initialize(), and
\* initialize() runs initializeIndexedDB, which issues indexedDB.open
StorageCall(c, op) ==
  /\ localStorageManager.calls[c].at = "idle"
  /\ localStorageManager.isInitialized \/ localStorageManager.opened < MaxOpens
  /\ localStorageManager' =
       IF localStorageManager.isInitialized
       THEN [localStorageManager EXCEPT
               !.calls[c] = [op |-> op, at |-> AfterInitialize(localStorageManager, op)],
               !.storedWithoutDb = @ \/ (op = "storeData" /\ localStorageManager.db = Null)]
       ELSE [localStorageManager EXCEPT
               !.calls[c] = [op |-> op, at |-> "open"],
               !.opened = @ + 1]
  /\ UNCHANGED <<app, errorHandler>>

\* request.onsuccess of indexedDB.open: this.db = result; resolve()
OpenSuccess(c) ==
  /\ localStorageManager.calls[c].at = "open"
  /\ localStorageManager' =
       [localStorageManager EXCEPT !.db = Some("SolarWindAnalysisDB"),
                                   !.calls[c].at = "directories"]
  /\ UNCHANGED <<app, errorHandler>>

\* request.onerror of indexedDB.open: reject; initialize and its caller throw
OpenError(c) ==
  /\ localStorageManager.calls[c].at = "open"
  /\ localStorageManager' =
       [localStorageManager EXCEPT !.openFailures = @ + 1, !.calls[c].at = "failed"]
  /\ UNCHANGED <<app, errorHandler>>

\* await this.createStorageDirectories(); this.isInitialized = true
DirectoriesCreated(c) ==
  /\ localStorageManager.calls[c].at = "directories"
  /\ localStorageManager' =
       [localStorageManager EXCEPT
          !.isInitialized = TRUE,
          !.calls[c].at = IF localStorageManager.calls[c].op = "initialize"
                          THEN "done" ELSE "initialized"]
  /\ UNCHANGED <<app, errorHandler>>

\* the caller of initialize() goes on after its await
StorageContinue(c) ==
  /\ localStorageManager.calls[c].at = "initialized"
  /\ localStorageManager' =
       [localStorageManager EXCEPT
          !.calls[c].at = AfterInitialize(localStorageManager, localStorageManager.calls[c].op),
          !.storedWithoutDb = @ \/ (localStorageManager.calls[c].op = "storeData"
                                      /\ localStorageManager.db = Null)]
  /\ UNCHANGED <<app, errorHandler>>

\* the put, get or cursor request settles
RequestSettles(c, succeeded) ==
  /\ localStorageManager.calls[c].at = "request"
  /\ localStorageManager' =
       [localStorageManager EXCEPT
          !.calls[c].at = IF succeeded \/ localStorageManager.calls[c].op # "storeData"
                          THEN "done" ELSE "failed"]
  /\ UNCHANGED <<app, errorHandler>>

\* the promise of the call is settled; the caller may call again
StorageReturn(c) ==
  /\ localStorageManager.calls[c].at \in {"done", "failed"}
  /\ localStorageManager' =
       [localStorageManager EXCEPT !.calls[c] = [op |-> "none", at |-> "idle"]]
  /\ UNCHANGED <<app, errorHandler>>

-----------------------------------------------------------------------------
(* components/ManualInputForm, components/EnhancedInputForm: form state *)

EnergySourceDefaults(type) ==
  CASE type = "solar" -> [efficiency |-> Q(37, 2), costPerKw |-> R(15000),
                          dailyProductionHours |-> Q(26, 5), degradationRate |-> Q(1, 2),
                          specificOperationalCosts |-> R(200)]
    [] type = "wind"  -> [efficiency |-> R(35), costPerKw |-> R(18000),
                          dailyProductionHours |-> Q(17, 2), degradationRate |-> Q(3, 10),
                          specificOperationalCosts |-> R(400)]
    [] type = "hydro" -> [efficiency |-> R(85), costPerKw |-> R(25000),
                          dailyProductionHours |-> R(20), degradationRate |-> Q(1, 10),
                          specificOperationalCosts |-> R(300)]
    [] type = "wave"  -> [efficiency |-> R(25), costPerKw |-> R(35000),
                          dailyProductionHours |-> R(16), degradationRate |-> Q(4, 5),
                          specificOperationalCosts |-> R(800)]

NewSource(type) ==
  LET d == EnergySourceDefaults(type)
  IN Source(type, TRUE, R(10), d.efficiency, d.costPerKw, d.dailyProductionHours,
            d.degradationRate, d.specificOperationalCosts)

\* a Partial<SystemParameters> that holds only the two fields the forms start with
FormSystem(gridEmissionFactor, operationalLifetime) ==
  [energySources |-> <<>>, totalCapacity |-> Undefined, averageEfficiency |-> Undefined,
   gridEmissionFactor |-> gridEmissionFactor, operationalLifetime |-> operationalLifetime,
   totalInstallationCost |-> Undefined, totalOperationalCosts |-> Undefined]

Financial(price, increase, years, interest, inflation, discount) ==
  [electricityPrice |-> price, electricityPriceIncrease |-> increase,
   financingYears |-> years, interestRate |-> interest,
   inflationRate |-> inflation, discountRate |-> discount]

InitialEnergySources == <<NewSource("solar")>>
InitialSystemParams == FormSystem(Q(19, 20), R(25))
InitialFinancialParams == Financial(Q(11, 5), R(8), R(10), R(7), R(5), R(8))

\* the four derived totals, each a reduce over the enabled sources
TotalCapacity(sources) ==
  LET enabled == SelectEnabled(sources)
  IN SumSeq([i \in 1..Len(enabled) |-> enabled[i].capacity])

AverageEfficiency(sources) ==
  LET enabled == SelectEnabled(sources)
  IN SumSeq([i \in 1..Len(enabled) |-> Div(enabled[i].efficiency, R(Len(enabled)))])

\* the installation cost without the capacities
TotalInstallationCostMutant(sources) ==
  LET enabled == SelectEnabled(sources)
  IN SumSeq([i \in 1..Len(enabled) |-> enabled[i].costPerKw])

TotalInstallationCost(sources) ==
  LET enabled == SelectEnabled(sources)
  IN SumSeq([i \in 1..Len(enabled) |-> Mul(enabled[i].capacity, enabled[i].costPerKw)])

TotalOperationalCosts(sources) ==
  LET enabled == SelectEnabled(sources)
  IN SumSeq([i \in 1..Len(enabled) |->
              Mul(enabled[i].capacity, enabled[i].specificOperationalCosts)])

\* completeSystemParams of ManualInputForm.handleCalculate
CompleteSystemParams(sources, sp) ==
  [energySources |-> sources,
   totalCapacity |-> TotalCapacity(sources),
   averageEfficiency |-> AverageEfficiency(sources),
   gridEmissionFactor |-> OrElse(Num(sp.gridEmissionFactor), Q(19, 20)),
   operationalLifetime |-> OrElse(Num(sp.operationalLifetime), R(25)),
   totalInstallationCost |-> TotalInstallationCost(sources),
   totalOperationalCosts |-> TotalOperationalCosts(sources)]

UnitWeather == [t \in EnergyTypes |-> One]

MLData(sp, fp, weather, flags, confidence) ==
  [systemParams |-> sp, financialParams |-> fp, weatherAdjustedFactors |-> weather,
   missingDataFlags |-> flags, confidenceScore |-> confidence]

\* mlDataIntegrator.integrateAndAnalyze of EnhancedInputForm
IntegrateAndAnalyze(systemData, financialData) ==
  MLData(CompleteSystemParams(systemData.energySources, systemData),
         Financial(OrElse(Num(financialData.electricityPrice), Q(11, 5)),
                   OrElse(Num(financialData.electricityPriceIncrease), R(8)),
                   OrElse(Num(financialData.financingYears), R(10)),
                   OrElse(Num(financialData.interestRate), R(7)),
                   OrElse(Num(financialData.inflationRate), R(5)),
                   OrElse(Num(financialData.discountRate), R(8))),
         UnitWeather, <<>>, Q(17, 20))

\* GoalsForm.handleCalculate: the four energy figures of the chosen metric
GoalFigures(selectedMetric, numericValue) ==
  CASE selectedMetric = "daily" ->
         [daily |-> numericValue, monthly |-> Mul(numericValue, R(30)),
          yearly |-> Mul(numericValue, R(365)),
          carbon |-> Mul(Mul(numericValue, R(365)), Q(19, 20))]
    [] selectedMetric = "monthly" ->
         [daily |-> Div(numericValue, R(30)), monthly |-> numericValue,
          yearly |-> Mul(numericValue, R(12)),
          carbon |-> Mul(Mul(numericValue, R(12)), Q(19, 20))]
    [] selectedMetric = "yearly" ->
         [daily |-> Div(numericValue, R(365)), monthly |-> Div(numericValue, R(12)),
          yearly |-> numericValue, carbon |-> Mul(numericValue, Q(19, 20))]
    [] selectedMetric = "carbon" ->
         [daily |-> Div(Div(numericValue, Q(19, 20)), R(365)),
          monthly |-> Div(Div(numericValue, Q(19, 20)), R(12)),
          yearly |-> Div(numericValue, Q(19, 20)), carbon |-> numericValue]

\* calculateSystemParameters with the monthly estimate not divided by the 30 days
CalculateSystemParametersMutant(dailyEnergy, monthlyEnergy, yearlyEnergy, yearlyCarbon, gridEmissionFactor, dailyProductionHours) ==
  LET systemSizeFromDaily == Div(dailyEnergy, dailyProductionHours)
      systemSizeFromMonthly == Div(monthlyEnergy, dailyProductionHours)
      systemSizeFromYearly == Div(yearlyEnergy, Mul(dailyProductionHours, R(365)))
      yearlyEnergyFromCarbon == Div(yearlyCarbon, gridEmissionFactor)
      systemSizeFromCarbon == Div(yearlyEnergyFromCarbon, Mul(dailyProductionHours, R(365)))
      calculatedSystemSize ==
        Div(Add(Add(Add(systemSizeFromDaily, systemSizeFromMonthly), systemSizeFromYearly),
                systemSizeFromCarbon), R(4))
  IN [calculatedCapacity |-> calculatedSystemSize,
      calculatedSystemSize |-> calculatedSystemSize]

CalculateSystemParameters(dailyEnergy, monthlyEnergy, yearlyEnergy, yearlyCarbon, gridEmissionFactor, dailyProductionHours) ==
  LET systemSizeFromDaily == Div(dailyEnergy, dailyProductionHours)
      systemSizeFromMonthly == Div(monthlyEnergy, Mul(dailyProductionHours, R(30)))
      systemSizeFromYearly == Div(yearlyEnergy, Mul(dailyProductionHours, R(365)))
      yearlyEnergyFromCarbon == Div(yearlyCarbon, gridEmissionFactor)
      systemSizeFromCarbon == Div(yearlyEnergyFromCarbon, Mul(dailyProductionHours, R(365)))
      calculatedSystemSize ==
        Div(Add(Add(Add(systemSizeFromDaily, systemSizeFromMonthly), systemSizeFromYearly),
                systemSizeFromCarbon), R(4))
  IN [calculatedCapacity |-> calculatedSystemSize,
      calculatedSystemSize |-> calculatedSystemSize]

-----------------------------------------------------------------------------
(* App.tsx (the tabbed App) and the two input forms: the handlers *)

Tabs == {"goals", "input", "financial"}
ResultTabs == {"financial"}
InputModes == {"enhanced", "manual"}

\* the result of a run is a function of the arguments the engine was called
\* with; results and enhanced keep those arguments, and the values of a run
\* are read from them with the operators below
Run(sp, fp) == [systemParams |-> sp, financialParams |-> fp]

FinancialMetricsOf(run) == CalculateFinancialMetrics(run.systemParams, run.financialParams)
EnergyGenerationOf(run) == CalculateEnergyGeneration(run.systemParams)
CarbonReductionOf(run) ==
  CalculateCarbonReduction(run.systemParams, CalculateEnergyGeneration(run.systemParams))
EnhancedCashFlowsOf(run) ==
  CalculateWeatherAdjustedCashFlows(run.systemParams, run.financialParams, run.weatherFactors)

FormMounted(mode) == activeTab = "input" /\ inputMode = mode

\* a form that leaves the screen loses its state; the next one starts from useState
ResetForm ==
  /\ energySources' = InitialEnergySources
  /\ systemParams' = InitialSystemParams
  /\ financialParams' = InitialFinancialParams
  /\ mlResults' = Null

\* EnhancedInputForm.handleMLIntegration on the form state (sources, sp, fp)
MLIntegration(sources, sp, fp) ==
  LET data == IntegrateAndAnalyze([sp EXCEPT !.energySources = sources], fp)
  IN /\ mlResults' = Some(data)
     /\ energySources' = data.systemParams.energySources
     /\ systemParams' = data.systemParams
     /\ financialParams' = data.financialParams

\* a form is put on screen: useState, then the mount effect of EnhancedInputForm
MountForm(mode) ==
  IF mode = "enhanced"
  THEN MLIntegration(InitialEnergySources, InitialSystemParams, InitialFinancialParams)
  ELSE ResetForm

AddEnergySource(type) ==
  /\ activeTab = "input"
  /\ edits < MaxEdits
  /\ Len(energySources) < MaxSources
  /\ \A i \in 1..Len(energySources) : energySources[i].type # type
  /\ energySources' = Append(energySources, NewSource(type))
  /\ edits' = edits + 1
  /\ lastOp' = [op |-> "addEnergySource"]
  /\ UNCHANGED <<services, mlModel, systemParams, financialParams, mlResults, activeTab, inputMode,
                 integratedData, results, enhanced>>

UpdateEnergySource(index, field, value) ==
  /\ activeTab = "input"
  /\ edits < MaxEdits
  /\ index \in 1..Len(energySources)
  /\ energySources' = [energySources EXCEPT ![index] = [@ EXCEPT ![field] = value]]
  /\ edits' = edits + 1
  /\ lastOp' = [op |-> "updateEnergySource"]
  /\ UNCHANGED <<services, mlModel, systemParams, financialParams, mlResults, activeTab, inputMode,
                 integratedData, results, enhanced>>

RemoveEnergySource(index) ==
  /\ activeTab = "input"
  /\ edits < MaxEdits
  /\ index \in 1..Len(energySources)
  /\ energySources' =
       IF inputMode = "manual" /\ ~(Len(energySources) > 1) THEN energySources
       ELSE SubSeq(energySources, 1, index - 1)
              \o SubSeq(energySources, index + 1, Len(energySources))
  /\ edits' = edits + 1
  /\ lastOp' = [op |-> "removeEnergySource"]
  /\ UNCHANGED <<services, mlModel, systemParams, financialParams, mlResults, activeTab, inputMode,
                 integratedData, results, enhanced>>

\* handleFinancialParamChange (manual: parseFloat(value) || 0) and
\* handleFinancialChange (enhanced: the parsed number as it is)
HandleFinancialChange(field, value) ==
  /\ activeTab = "input"
  /\ edits < MaxEdits
  /\ financialParams' =
       [financialParams EXCEPT ![field] =
          IF inputMode = "manual" THEN OrElse(value, Zero) ELSE value]
  /\ edits' = edits + 1
  /\ lastOp' = [op |-> "handleFinancialChange"]
  /\ UNCHANGED <<services, mlModel, energySources, systemParams, mlResults, activeTab, inputMode,
                 integratedData, results, enhanced>>

HandleSystemChange(field, value) ==
  /\ activeTab = "input"
  /\ edits < MaxEdits
  /\ systemParams' =
       [systemParams EXCEPT ![field] =
          IF inputMode = "manual" THEN OrElse(value, Zero) ELSE value]
  /\ edits' = edits + 1
  /\ lastOp' = [op |-> "handleSystemChange"]
  /\ UNCHANGED <<services, mlModel, energySources, financialParams, mlResults, activeTab, inputMode,
                 integratedData, results, enhanced>>

\* the "ML Integration" button of EnhancedInputForm
HandleMLIntegration ==
  /\ FormMounted("enhanced")
  /\ MLIntegration(energySources, systemParams, financialParams)
  /\ lastOp' = [op |-> "handleMLIntegration"]
  /\ UNCHANGED <<services, mlModel, activeTab, inputMode, integratedData, results, enhanced, edits>>

\* ManualInputForm.handleCalculate, then App.handleManualCalculation
ManualHandleCalculate ==
  /\ FormMounted("manual")
  /\ LET sp == CompleteSystemParams(energySources, systemParams)
     IN /\ results' = Some(Run(sp, financialParams))
        /\ integratedData' = Some(MLData(sp, financialParams, UnitWeather, <<>>, One))
  /\ activeTab' = "financial"
  /\ ResetForm
  /\ lastOp' = [op |-> "handleManualCalculation"]
  /\ UNCHANGED <<services, mlModel, inputMode, enhanced, edits>>

\* EnhancedInputForm.handleCalculate, then App.handleIntegratedCalculation:
\* the handler reads the mlResults of the render it was created in
EnhancedHandleCalculate ==
  /\ FormMounted("enhanced")
  /\ IF mlResults = Null
     THEN /\ MLIntegration(energySources, systemParams, financialParams)
          /\ UNCHANGED <<services, mlModel, activeTab, integratedData, results>>
     ELSE /\ integratedData' = mlResults
          /\ results' = Some(Run(mlResults[1].systemParams, mlResults[1].financialParams))
          /\ activeTab' = "financial"
          /\ ResetForm
  /\ lastOp' = [op |-> "handleIntegratedCalculation"]
  /\ UNCHANGED <<services, mlModel, inputMode, enhanced, edits>>

SetActiveTab(tab) ==
  /\ tab # activeTab
  /\ edits < MaxEdits
  /\ tab \in ResultTabs => results # Null
  /\ activeTab' = tab
  /\ IF tab = "input" THEN MountForm(inputMode) ELSE ResetForm
  /\ edits' = edits + 1
  /\ lastOp' = [op |-> "setActiveTab"]
  /\ UNCHANGED <<services, mlModel, inputMode, integratedData, results, enhanced>>

SetInputMode(mode) ==
  /\ activeTab = "input"
  /\ mode # inputMode
  /\ edits < MaxEdits
  /\ inputMode' = mode
  /\ MountForm(mode)
  /\ edits' = edits + 1
  /\ lastOp' = [op |-> "setInputMode"]
  /\ UNCHANGED <<services, mlModel, activeTab, integratedData, results, enhanced>>

\* GoalsForm.handleCalculate, then App.handleGoalsCalculation(capacity, systemSize)
HandleGoalsCalculation(selectedMetric, numericValue) ==
  /\ activeTab = "goals"
  /\ ~IsNaN(numericValue) /\ ~Le(numericValue, Zero)
  /\ LET g == GoalFigures(selectedMetric, numericValue)
         calculatedParams ==
           CalculateSystemParameters(g.daily, g.monthly, g.yearly, g.carbon, Q(19, 20), R(5))
         systemSize == calculatedParams.calculatedSystemSize
     IN /\ integratedData' =
             IF integratedData = Null THEN integratedData
             ELSE LET sp == integratedData[1].systemParams
                      updatedSources ==
                        IF Len(sp.energySources) > 0
                        THEN [sp.energySources EXCEPT ![1] = [@ EXCEPT !.capacity = systemSize]]
                        ELSE sp.energySources
                  IN Some([integratedData[1] EXCEPT !.systemParams =
                             [sp EXCEPT !.energySources = updatedSources,
                                        !.totalCapacity = systemSize]])
        /\ lastOp' = [op |-> "handleGoalsCalculation", systemSize |-> systemSize,
                      selectedMetric |-> selectedMetric, numericValue |-> numericValue]
  /\ UNCHANGED <<services, mlModel, energySources, systemParams, financialParams, mlResults, activeTab,
                 inputMode, results, enhanced, edits>>

\* utils/enhancedCalculations run on the integrated data with the weather factors wf
CalculateEnhanced(wf) ==
  /\ integratedData # Null
  /\ enhanced' = Some([systemParams |-> integratedData[1].systemParams,
                       financialParams |-> integratedData[1].financialParams,
                       weatherFactors |-> wf])
  /\ lastOp' = [op |-> "calculateEnhancedFinancialMetrics"]
  /\ UNCHANGED <<services, mlModel, energySources, systemParams, financialParams, mlResults, activeTab,
                 inputMode, integratedData, results, edits>>

-----------------------------------------------------------------------------
(* Calculation runs: a manual form filled in with small values is submitted, *)
(* and the enhanced calculations run on the data of the submitted run.       *)

\* values a user has typed into the manual form
SourceSet ==
  {Source("solar", TRUE, R(2), R(20), R(1000), R(1), Zero, R(100)),
   Source("solar", FALSE, R(5), R(10), R(2000), R(3), R(50), R(300)),
   Source("wind", TRUE, R(1), R(30), R(3000), R(2), R(50), R(200)),
   Source("wind", FALSE, R(1), R(30), R(3000), R(2), R(50), R(200)),
   Source("hydro", TRUE, R(3), R(80), R(2000), R(4), Zero, R(50))}

DistinctTypes(sources) ==
  \A i, j \in 1..Len(sources) : i # j => sources[i].type # sources[j].type

SourceLists ==
  {s \in UNION {[1..n -> SourceSet] : n \in 1..MaxSources} : DistinctTypes(s)}

\* <<interestRate, financingYears>>
LoanTerms ==
  {<<Zero, Zero>>, <<Zero, R(1)>>, <<Zero, R(2)>>, <<Zero, R(5)>>,
   <<R(1200), Zero>>, <<R(1200), R(1)>>}
\* <<electricityPrice, electricityPriceIncrease, discountRate>>
PriceTerms == {<<R(1), Zero, Zero>>, <<R(2), R(100), Zero>>, <<R(2), R(100), R(100)>>}

FinancialSet ==
  {Financial(p[1], p[2], l[2], l[1], Zero, p[3]) : p \in PriceTerms, l \in LoanTerms}

WeatherFactorSet ==
  {UnitWeather,
   [t \in EnergyTypes |-> IF t = "solar" THEN Q(1, 2) ELSE IF t = "wind" THEN R(2) ELSE One]}

Init ==
  /\ energySources \in SourceLists
  /\ systemParams \in {FormSystem(Q(19, 20), R(l)) : l \in 1..MaxLifetime}
  /\ financialParams \in FinancialSet
  /\ mlResults = Null
  /\ activeTab = "input"
  /\ inputMode = "manual"
  /\ integratedData = Null
  /\ results = Null
  /\ enhanced = Null
  /\ edits = 0
  /\ mlModel = One
  /\ ServicesConstructed
  /\ lastOp = [op |-> "init"]

Next ==
  \/ ManualHandleCalculate
  \/ \E wf \in WeatherFactorSet : CalculateEnhanced(wf)

Spec == Init /\ [][Next]_vars

-----------------------------------------------------------------------------
(* The application: App starts on the input tab in enhanced mode, the form   *)
(* holds its useState values and its mount effect has run.                   *)

GoalMetrics == {"daily", "monthly", "yearly", "carbon"}
GoalValues == {R(100), Q(1, 2)}
SourceUpdates == {<<"enabled", FALSE>>, <<"capacity", R(20)>>}
FinancialEdits == {<<"financingYears", Zero>>, <<"interestRate", Zero>>}
SystemEdits == {<<"operationalLifetime", R(20)>>}

InitApp ==
  /\ activeTab = "input"
  /\ inputMode = "enhanced"
  /\ LET data == IntegrateAndAnalyze(
                   [InitialSystemParams EXCEPT !.energySources = InitialEnergySources],
                   InitialFinancialParams)
     IN /\ mlResults = Some(data)
        /\ energySources = data.systemParams.energySources
        /\ systemParams = data.systemParams
        /\ financialParams = data.financialParams
  /\ integratedData = Null
  /\ results = Null
  /\ enhanced = Null
  /\ edits = 0
  /\ mlModel = One
  /\ ServicesConstructed
  /\ lastOp = [op |-> "init"]

NextApp ==
  \/ \E type \in EnergyTypes : AddEnergySource(type)
  \/ \E index \in 1..MaxSources, u \in SourceUpdates : UpdateEnergySource(index, u[1], u[2])
  \/ \E index \in 1..MaxSources : RemoveEnergySource(index)
  \/ \E e \in FinancialEdits : HandleFinancialChange(e[1], e[2])
  \/ \E e \in SystemEdits : HandleSystemChange(e[1], e[2])
  \/ HandleMLIntegration
  \/ ManualHandleCalculate
  \/ EnhancedHandleCalculate
  \/ \E tab \in Tabs : SetActiveTab(tab)
  \/ \E mode \in InputModes : SetInputMode(mode)
  \/ \E m \in GoalMetrics, v \in GoalValues : HandleGoalsCalculation(m, v)

SpecApp == InitApp /\ [][NextApp]_vars

-----------------------------------------------------------------------------
(* Properties of the calculation runs *)

\* the runs on record: the conventional run behind results, the enhanced run
ConventionalRuns == IF results = Null THEN {} ELSE {results[1]}
EnhancedRuns == IF enhanced = Null THEN {} ELSE {enhanced[1]}

\* every schedule on record, with the production series it was built from
Schedules ==
  {[run |-> r, rows |-> FinancialMetricsOf(r).yearlyCashFlows,
    energy |-> YearlyEnergy(r.systemParams)] : r \in ConventionalRuns}
  \cup
  {[run |-> r, rows |-> EnhancedCashFlowsOf(r),
    energy |-> [y \in 1..LoopCount(r.systemParams.operationalLifetime) |->
                  WeatherAdjustedProduction(r.systemParams, r.weatherFactors, y)]] :
     r \in EnhancedRuns}

CumulativeIsRunningSum(rows) ==
  \A n \in 1..Len(rows) :
    rows[n].cumulativeCashFlow = SumSeq([i \in 1..n |-> rows[i].cashFlow])

\* C1: in every schedule of either cash-flow builder, the cumulative cash
\* flow of row n is the sum of the cash flows of rows 0..n.
C1_CashFlowConservation ==
  \A s \in Schedules : CumulativeIsRunningSum(s.rows)

C1_Witness ==
  /\ results # Null /\ enhanced # Null
  /\ \A s \in Schedules :
       /\ Len(s.rows) >= 3
       /\ s.rows[1].cashFlow # Zero
       /\ s.rows[3].cumulativeCashFlow # s.rows[3].cashFlow

\* C2: the schedule of calculateYearlyCashFlows has operationalLifetime + 1
\* rows, their years are 0, 1, ..., operationalLifetime in order, and the
\* cash flow of year 0 is -totalInstallationCost.
C2_ScheduleShape ==
  \A r \in ConventionalRuns :
    LET rows == FinancialMetricsOf(r).yearlyCashFlows
    IN /\ R(Len(rows)) = Add(r.systemParams.operationalLifetime, One)
       /\ \A i \in 1..Len(rows) : rows[i].year = i - 1
       /\ rows[1].cashFlow = Neg(r.systemParams.totalInstallationCost)

C2_Witness ==
  /\ results # Null
  /\ Len(FinancialMetricsOf(results[1]).yearlyCashFlows) >= 3
  /\ Gt(results[1].systemParams.totalInstallationCost, Zero)
  /\ Gt(results[1].systemParams.totalOperationalCosts, Zero)

\* the loan term of year y as the claim words it
LoanOfYear(run, y) ==
  IF Le(R(y), run.financialParams.financingYears)
  THEN YearlyLoanPayment(run.systemParams, run.financialParams)
  ELSE Zero

RevenueOfYear(s, y) ==
  Mul(Mul(s.energy[y], s.run.financialParams.electricityPrice),
      Pow(Add(One, Div(s.run.financialParams.electricityPriceIncrease, R(100))), y - 1))

\* C3: for every year y >= 1, cashFlow[y] = yearlyEnergy[y-1] * price *
\* (1 + increase/100)^(y-1) - totalOperationalCosts - loan(y), where loan(y)
\* is the yearly loan payment for y <= financingYears and 0 afterwards.
C3_YearlyCashFlow ==
  \A s \in Schedules :
    \A y \in 1..(Len(s.rows) - 1) :
      s.rows[y + 1].cashFlow =
        Sub(Sub(RevenueOfYear(s, y), s.run.systemParams.totalOperationalCosts),
            LoanOfYear(s.run, y))

C3_Witness ==
  /\ results # Null /\ enhanced # Null
  /\ results[1].financialParams.financingYears = One
  /\ Gt(YearlyLoanPayment(results[1].systemParams, results[1].financialParams), Zero)
  /\ Len(FinancialMetricsOf(results[1]).yearlyCashFlows) >= 3
  /\ Gt(results[1].financialParams.electricityPriceIncrease, Zero)

\* C4: with financingYears = 0 the builder charges no loan payment, computes
\* the payment without dividing by zero (the computed payment is a finite
\* number), and every cashFlow and cumulativeCashFlow is finite.
C4_ZeroTermSkipsFinancing ==
  \A s \in Schedules :
    s.run.financialParams.financingYears = Zero =>
      /\ IsFinite(YearlyLoanPayment(s.run.systemParams, s.run.financialParams))
      /\ \A y \in 1..(Len(s.rows) - 1) :
           s.rows[y + 1].cashFlow =
             Sub(RevenueOfYear(s, y), s.run.systemParams.totalOperationalCosts)
      /\ \A i \in 1..Len(s.rows) :
           IsFinite(s.rows[i].cashFlow) /\ IsFinite(s.rows[i].cumulativeCashFlow)

\* the loan payments the schedule has subtracted, year by year
LoanSubtracted(s) ==
  [y \in 1..(Len(s.rows) - 1) |->
     Sub(Sub(RevenueOfYear(s, y), s.run.systemParams.totalOperationalCosts),
         s.rows[y + 1].cashFlow)]

DisabledVariants(source) ==
  {[source EXCEPT !.capacity = R(7)], [source EXCEPT !.efficiency = R(90)],
   [source EXCEPT !.costPerKw = R(9000)], [source EXCEPT !.dailyProductionHours = R(6)],
   [source EXCEPT !.degradationRate = R(10)],
   [source EXCEPT !.specificOperationalCosts = R(900)],
   [source EXCEPT !.capacity = R(7), !.efficiency = R(90), !.costPerKw = R(9000),
                  !.dailyProductionHours = R(6), !.degradationRate = R(10),
                  !.specificOperationalCosts = R(900)]}

\* every aggregate of a submission of `sources` with the parameters of `run`
Aggregates(sources, run) ==
  LET sp == CompleteSystemParams(sources, run.systemParams)
      r == Run(sp, run.financialParams)
  IN [totalCapacity |-> sp.totalCapacity,
      averageEfficiency |-> sp.averageEfficiency,
      totalInstallationCost |-> sp.totalInstallationCost,
      totalOperationalCosts |-> sp.totalOperationalCosts,
      energyGeneration |-> EnergyGenerationOf(r),
      financialMetrics |-> FinancialMetricsOf(r),
      carbonReduction |-> CarbonReductionOf(r),
      weatherAdjusted |->
        {CalculateWeatherAdjustedCashFlows(sp, run.financialParams, wf) :
           wf \in WeatherFactorSet}]

\* C6: a disabled source contributes nothing to any aggregate: giving it
\* other values in its numeric fields changes none of the four totals, the
\* energy figures and series, the cash-flow schedules or the carbon values.
C6_DisabledSourceExcluded ==
  \A r \in ConventionalRuns :
    LET sources == r.systemParams.energySources
        aggregates == Aggregates(sources, r)
    IN \A i \in 1..Len(sources) :
         ~sources[i].enabled =>
           \A v \in DisabledVariants(sources[i]) :
             Aggregates([sources EXCEPT ![i] = v], r) = aggregates

C6_Witness ==
  /\ results # Null
  /\ \E i, j \in 1..Len(results[1].systemParams.energySources) :
       /\ ~results[1].systemParams.energySources[i].enabled
       /\ results[1].systemParams.energySources[j].enabled
       /\ Gt(results[1].systemParams.energySources[i].capacity, Zero)

-----------------------------------------------------------------------------
(* Properties of the application state *)

\* every SystemParameters record the application holds
StoredSystemParameters ==
  (IF integratedData = Null THEN {} ELSE {integratedData[1].systemParams})
  \cup (IF mlResults = Null THEN {} ELSE {mlResults[1].systemParams})
  \cup (IF results = Null THEN {} ELSE {results[1].systemParams})

TotalsRecomputed(sp) ==
  /\ sp.totalCapacity = TotalCapacity(sp.energySources)
  /\ sp.averageEfficiency = AverageEfficiency(sp.energySources)
  /\ sp.totalInstallationCost = TotalInstallationCost(sp.energySources)
  /\ sp.totalOperationalCosts = TotalOperationalCosts(sp.energySources)

\* C7: in every reachable state each stored SystemParameters has its four
\* totals equal to their recomputation over its enabled energy sources.
C7_TotalsFollowSources ==
  \A sp \in StoredSystemParameters : TotalsRecomputed(sp)

\* the goal-based resize has run on stored data
C7_Witness ==
  /\ lastOp.op = "handleGoalsCalculation"
  /\ integratedData # Null
  /\ integratedData[1].systemParams.totalCapacity = lastOp.systemSize

-----------------------------------------------------------------------------
(* utils/dataProcessor.ts: normalisation, validation, imputation *)

\* a JavaScript value of a raw record: a number, a string (its characters),
\* null, undefined, an array (its items) or another object
RawValue(kind, num, text, items) == [kind |-> kind, num |-> num, text |-> text, items |-> items]
RawNum(x) == RawValue("number", x, <<>>, <<>>)
RawStr(text) == RawValue("string", NaN, text, <<>>)
RawNull == RawValue("null", NaN, <<>>, <<>>)
RawUndefined == RawValue("undefined", NaN, <<>>, <<>>)
RawArray(items) == RawValue("array", NaN, <<>>, items)
RawObject == RawValue("object", NaN, <<>>, <<>>)

DigitChars == <<"0", "1", "2", "3", "4", "5", "6", "7", "8", "9">>
IsDigit(c) == \E i \in 1..Len(DigitChars) : DigitChars[i] = c
DigitValue(c) == (CHOOSE i \in 1..Len(DigitChars) : DigitChars[i] = c) - 1

\* how many digits text holds in a row from position `from`
RECURSIVE DigitRun(_, _)
DigitRun(text, from) ==
  IF from <= Len(text) /\ IsDigit(text[from]) THEN 1 + DigitRun(text, from + 1) ELSE 0

\* the value of the `count` digits of text that start at `from`
RECURSIVE DigitsValue(_, _, _)
DigitsValue(text, from, count) ==
  IF count = 0 THEN 0
  ELSE 10 * DigitsValue(text, from, count - 1) + DigitValue(text[from + count - 1])

RECURSIVE PowInt(_, _)
PowInt(b, k) == IF k = 0 THEN 1 ELSE b * PowInt(b, k - 1)

\* parseFloat of a text without blanks and exponent: sign, digits, point, digits
ParseFloat(text) ==
  LET negative == Len(text) >= 1 /\ text[1] = "-"
      start == IF negative THEN 2 ELSE 1
      intLen == DigitRun(text, start)
      point == start + intLen
      fracLen == IF point <= Len(text) /\ text[point] = "."
                 THEN DigitRun(text, point + 1) ELSE 0
      magnitude == Add(R(DigitsValue(text, start, intLen)),
                       Q(DigitsValue(text, point + 1, fracLen), PowInt(10, fracLen)))
  IN IF intLen + fracLen = 0 THEN NaN
     ELSE IF negative THEN Neg(magnitude) ELSE magnitude

\* value.replace(/[^\d.-]/g, '')
StripNonNumeric(text) == SelectSeq(text, LAMBDA c : IsDigit(c) \/ c = "." \/ c = "-")

\* one item of an array value: parseFloat for a string, then isFinite(num) ? num : NaN
NormalizeItem(v) ==
  LET num == IF v.kind = "string" THEN ParseFloat(v.text)
             ELSE IF v.kind = "number" THEN v.num ELSE NaN
  IN RawNum(IF IsFinite(num) THEN num ELSE NaN)

NormalizeValue(value) ==
  IF value.kind \in {"null", "undefined"} \/ (value.kind = "string" /\ value.text = <<>>)
  THEN RawNum(NaN)
  ELSE IF value.kind = "string" THEN RawNum(ParseFloat(StripNonNumeric(value.text)))
  ELSE IF value.kind = "number" THEN RawNum(IF IsFinite(value.num) THEN value.num ELSE NaN)
  ELSE IF value.kind = "array"
       THEN RawArray([i \in 1..Len(value.items) |-> NormalizeItem(value.items[i])])
  ELSE value

NormalizeData(rawData) == [k \in DOMAIN rawData |-> NormalizeValue(rawData[k])]

\* the order in which Object.entries lists the keys of the records of the model
KeyOrder ==
  <<"capacity", "efficiency", "gridEmissionFactor", "operationalLifetime", "costPerKw",
    "systemSize", "installationCost", "dailyProductionHours", "degradationRate",
    "operationalCosts", "energySources", "location",
    "electricityPrice", "electricityPriceIncrease", "financingYears", "interestRate",
    "inflationRate", "discountRate">>

Entries(data) == SelectSeq(KeyOrder, LAMBDA k : k \in DOMAIN data)

RuledKeys == {"capacity", "efficiency", "electricityPrice", "interestRate", "operationalLifetime"}

\* validationRules.get(key)(value); a value that is no number converts to NaN
ValidationRuleMutant(key, value) ==
  LET x == IF value.kind = "number" THEN value.num ELSE NaN
  IN CASE key = "capacity" -> ~IsNaN(x) /\ Gt(x, Zero)
       [] key = "efficiency" -> ~IsNaN(x) /\ Gt(x, Zero) /\ Lt(x, R(100))
       [] key = "electricityPrice" -> ~IsNaN(x) /\ Gt(x, Zero)
       [] key = "interestRate" -> ~IsNaN(x) /\ Ge(x, Zero) /\ Le(x, R(100))
       [] key = "operationalLifetime" -> ~IsNaN(x) /\ Gt(x, Zero) /\ Le(x, R(50))

ValidationRule(key, value) ==
  LET x == IF value.kind = "number" THEN value.num ELSE NaN
  IN CASE key = "capacity" -> ~IsNaN(x) /\ Gt(x, Zero)
       [] key = "efficiency" -> ~IsNaN(x) /\ Gt(x, Zero) /\ Le(x, R(100))
       [] key = "electricityPrice" -> ~IsNaN(x) /\ Gt(x, Zero)
       [] key = "interestRate" -> ~IsNaN(x) /\ Ge(x, Zero) /\ Le(x, R(100))
       [] key = "operationalLifetime" -> ~IsNaN(x) /\ Gt(x, Zero) /\ Le(x, R(50))

\* what one pass of the loop of validateData pushes to errors
FieldErrors(key, value) ==
  IF value.kind = "number" /\ IsNaN(value.num)
  THEN <<[type |-> "missing", key |-> key]>>
  ELSE IF key \in RuledKeys /\ ~ValidationRule(key, value)
       THEN <<[type |-> "invalid", key |-> key]>>
       ELSE <<>>

\* what one pass of the loop of validateData pushes to warnings
FieldWarnings(key, value) ==
  IF value.kind = "number" /\ ~IsNaN(value.num)
  THEN (IF key = "capacity" /\ Gt(value.num, R(1000))
        THEN <<[type |-> "high", key |-> key]>> ELSE <<>>)
       \o (IF key = "electricityPrice" /\ Gt(value.num, R(10))
           THEN <<[type |-> "high", key |-> key]>> ELSE <<>>)
  ELSE <<>>

RECURSIVE Flatten(_)
Flatten(lists) == IF lists = <<>> THEN <<>> ELSE lists[1] \o Flatten(Tail(lists))

ValidateData(data) ==
  LET normalizedData == NormalizeData(data)
      keys == Entries(normalizedData)
      errors == Flatten([i \in 1..Len(keys) |-> FieldErrors(keys[i], normalizedData[keys[i]])])
      warnings ==
        Flatten([i \in 1..Len(keys) |-> FieldWarnings(keys[i], normalizedData[keys[i]])])
  IN [isValid |-> Len(errors) = 0, errors |-> errors, warnings |-> warnings,
      normalizedData |-> normalizedData]

\* defaults[key] || 0
GetDefaultValue(key) ==
  CASE key = "capacity" -> R(10)
    [] key = "efficiency" -> R(18)
    [] key = "electricityPrice" -> Q(11, 5)
    [] key = "interestRate" -> R(7)
    [] key = "operationalLifetime" -> R(25)
    [] key = "gridEmissionFactor" -> Q(19, 20)
    [] key = "costPerKw" -> R(15000)
    [] key = "systemSize" -> R(10)
    [] key = "installationCost" -> R(150000)
    [] key = "dailyProductionHours" -> R(5)
    [] key = "degradationRate" -> Q(1, 2)
    [] key = "operationalCosts" -> R(5000)
    [] key = "electricityPriceIncrease" -> R(8)
    [] key = "financingYears" -> R(10)
    [] key = "inflationRate" -> R(5)
    [] key = "discountRate" -> R(8)
    [] OTHER -> Zero

\* correlations[key] || []
RelatedKeys(key) ==
  CASE key = "capacity" -> <<"systemSize">>
    [] key = "systemSize" -> <<"capacity", "installationCost">>
    [] key = "installationCost" -> <<"systemSize", "costPerKw">>
    [] key = "electricityPrice" -> <<"electricityPriceIncrease">>
    [] key = "interestRate" -> <<"discountRate", "inflationRate">>
    [] OTHER -> <<>>

GetCorrelatedValues(key, context) ==
  LET present == SelectSeq(RelatedKeys(key),
                   LAMBDA k : k \in DOMAIN context /\ context[k].kind = "number"
                              /\ ~IsNaN(context[k].num))
  IN [i \in 1..Len(present) |-> context[present[i]].num]

MlBasedImputation(key, context) ==
  LET correlatedValues == GetCorrelatedValues(key, context)
  IN IF Len(correlatedValues) > 0
     THEN Div(SumSeq(correlatedValues), R(Len(correlatedValues)))
     ELSE GetDefaultValue(key)

\* imputeMissingData(data, 'ml')
ImputeMissingData(data) ==
  [k \in DOMAIN data |->
     IF data[k].kind = "number" /\ IsNaN(data[k].num)
     THEN RawNum(MlBasedImputation(k, data))
     ELSE data[k]]

-----------------------------------------------------------------------------
(* utils/mlEnhancedCalculations.ts and the first App (flat parameters) *)

\* a run of the engine with the risk factor the network applied to npv and irr
MLRun(sp, fp, riskAdjustmentFactor) ==
  [systemParams |-> sp, financialParams |-> fp, riskAdjustmentFactor |-> riskAdjustmentFactor]

\* calculateWithMLValidation after its two validations; metricsCalls counts its
\* calls of calculateFinancialMetrics
ValidatedCalculation(systemValidation, financialValidation, riskAdjustmentFactor) ==
  IF ~systemValidation.isValid \/ ~financialValidation.isValid
  THEN [success |-> FALSE, data |-> Null,
        errors |-> systemValidation.errors \o financialValidation.errors,
        warnings |-> systemValidation.warnings \o financialValidation.warnings,
        metricsCalls |-> 0]
  ELSE [success |-> TRUE,
        data |-> Some(MLRun(ImputeMissingData(systemValidation.normalizedData),
                            ImputeMissingData(financialValidation.normalizedData),
                            riskAdjustmentFactor)),
        errors |-> systemValidation.errors \o financialValidation.errors,
        warnings |-> systemValidation.warnings \o financialValidation.warnings,
        metricsCalls |-> 1]

\* calculateWithMLValidation
CalculateWithMLValidation(sp, fp, riskAdjustmentFactor) ==
  ValidatedCalculation(ValidateData(sp), ValidateData(fp), riskAdjustmentFactor)

\* the arguments of the electricityPrices forecast App.calculateResults adds
PriceForecast(sp, fp) ==
  [operationalLifetime |-> sp.operationalLifetime,
   electricityPrice |-> fp.electricityPrice,
   electricityPriceIncrease |-> fp.electricityPriceIncrease]

\* App.calculateResults from the ML calculation's answer: its data on success,
\* the conventional calculation otherwise
SetResultsOf(ml) ==
  /\ results' = Some([run |-> IF ml.success THEN ml.data[1]
                               ELSE MLRun(systemParams, financialParams, One),
                       electricityPrices |-> PriceForecast(systemParams, financialParams)])
  /\ lastOp' = [op |-> "calculateResults", isValid |-> ml.success,
                errors |-> ml.errors,
                metricsCalls |-> ml.metricsCalls + (IF ml.success THEN 0 ELSE 1),
                outcome |-> "results"]

\* App.calculateResults: the ML calculation, and the conventional one when it fails
CalculateResults(riskAdjustmentFactor) ==
  /\ activeTab = "input"
  /\ SetResultsOf(CalculateWithMLValidation(systemParams, financialParams, riskAdjustmentFactor))
  /\ activeTab' = "financial"
  /\ UNCHANGED <<services, mlModel, energySources, systemParams, financialParams, mlResults, inputMode,
                 integratedData, enhanced, edits>>

\* MLDashboard.runMLCalculations from the calculation's answer, with
\* App.handleMLResultsUpdate on success
OnResultsUpdate(ml) ==
  /\ results' = IF ml.success /\ results # Null
                THEN Some([results[1] EXCEPT !.run = ml.data[1]])
                ELSE results
  /\ lastOp' = [op |-> "runMLCalculations", isValid |-> ml.success,
                errors |-> ml.errors, metricsCalls |-> ml.metricsCalls,
                outcome |-> IF ml.success THEN "results" ELSE "errors"]

\* MLDashboard.runMLCalculations, then App.handleMLResultsUpdate on success
RunMLCalculations(riskAdjustmentFactor) ==
  /\ activeTab = "ml"
  /\ OnResultsUpdate(CalculateWithMLValidation(systemParams, financialParams, riskAdjustmentFactor))
  /\ UNCHANGED <<services, mlModel, energySources, systemParams, financialParams, mlResults, activeTab,
                 inputMode, integratedData, enhanced, edits>>

\* a tab button of the first App; the ML tab mounts MLDashboard, whose effect validates
SelectTab(tab) ==
  /\ tab # activeTab
  /\ tab = "financial" => results # Null
  /\ activeTab' = tab
  /\ lastOp' = IF tab = "ml"
               THEN [op |-> "validateData", system |-> ValidateData(systemParams),
                     financial |-> ValidateData(financialParams)]
               ELSE [op |-> "setActiveTab"]
  /\ UNCHANGED <<services, mlModel, energySources, systemParams, financialParams, mlResults, inputMode,
                 integratedData, results, enhanced, edits>>

-----------------------------------------------------------------------------
(* utils/mlDataIntegration: MLDataIntegrator *)

\* averageDatabase.get(type + '_' + field); the per-type averages are the
\* numbers of the forms' table, and an unknown type has none
AverageOfSource(type) ==
  IF type \in EnergyTypes THEN EnergySourceDefaults(type)
  ELSE [efficiency |-> Undefined, costPerKw |-> Undefined,
        dailyProductionHours |-> Undefined, degradationRate |-> Undefined,
        specificOperationalCosts |-> Undefined]

\* x || fallback, where the fallback may itself be undefined
OrAverage(x, fallback) == IF Truthy(Num(x)) THEN x ELSE fallback

\* the map over filled.energySources: every field of a source, or its average
FillSource(source) ==
  LET average == AverageOfSource(source.type)
  IN Source(source.type, source.enabled,
            OrAverage(source.capacity, R(10)),
            OrAverage(source.efficiency, average.efficiency),
            OrAverage(source.costPerKw, average.costPerKw),
            OrAverage(source.dailyProductionHours, average.dailyProductionHours),
            OrAverage(source.degradationRate, average.degradationRate),
            OrAverage(source.specificOperationalCosts, average.specificOperationalCosts))

\* what a normalised array item (a number) is as a source: it has no field at
\* all, so its type is undefined and it does not count as enabled
ItemAsSource ==
  Source("undefined", FALSE, Undefined, Undefined, Undefined, Undefined, Undefined, Undefined)

NumberOf(data, key) ==
  IF key \in DOMAIN data /\ data[key].kind = "number" THEN data[key].num ELSE Undefined

\* fillMissingSystemData on the normalised record
FillMissingSystemData(systemData) ==
  LET given == IF "energySources" \in DOMAIN systemData
                  /\ systemData["energySources"].kind = "array"
               THEN [i \in 1..Len(systemData["energySources"].items) |-> ItemAsSource]
               ELSE <<>>
      sources == IF Len(given) = 0 THEN <<NewSource("solar")>> ELSE given
      filled == [i \in 1..Len(sources) |-> FillSource(sources[i])]
  IN [energySources |-> filled,
      totalCapacity |-> TotalCapacity(filled),
      averageEfficiency |-> AverageEfficiency(filled),
      gridEmissionFactor |-> OrElse(Num(NumberOf(systemData, "gridEmissionFactor")), Q(19, 20)),
      operationalLifetime |-> OrElse(Num(NumberOf(systemData, "operationalLifetime")), R(25)),
      totalInstallationCost |-> TotalInstallationCost(filled),
      totalOperationalCosts |-> TotalOperationalCosts(filled)]

FillMissingFinancialData(financialData) ==
  Financial(OrElse(Num(NumberOf(financialData, "electricityPrice")), Q(11, 5)),
            OrElse(Num(NumberOf(financialData, "electricityPriceIncrease")), R(8)),
            OrElse(Num(NumberOf(financialData, "financingYears")), R(10)),
            OrElse(Num(NumberOf(financialData, "interestRate")), R(7)),
            OrElse(Num(NumberOf(financialData, "inflationRate")), R(5)),
            OrElse(Num(NumberOf(financialData, "discountRate")), R(8)))

MinNum(a, b) == IF Lt(a, b) THEN a ELSE b
MaxNum(a, b) == IF Gt(a, b) THEN a ELSE b

\* calculateIntegratedConfidence; weather is Null when no weather data came
CalculateIntegratedConfidence(sp, fp, weather) ==
  LET enabledSources == Len(SelectEnabled(sp.energySources))
      c1 == IF weather = Null THEN Q(4, 5) ELSE One
      c2 == IF enabledSources = 1 THEN Mul(c1, Q(9, 10))
            ELSE IF enabledSources > 3 THEN Mul(c1, Q(11, 10)) ELSE c1
      c3 == IF Gt(sp.totalCapacity, R(1000)) THEN Mul(c2, Q(9, 10)) ELSE c2
      c4 == IF Gt(fp.interestRate, R(15)) THEN Mul(c3, Q(4, 5)) ELSE c3
  IN MaxNum(Q(1, 10), MinNum(One, c4))

\* identifyMissingDataFlags on the raw records; a flag is named by its field
IdentifyMissingDataFlags(rawSystemParams, rawFinancialParams) ==
  (IF rawSystemParams["energySources"].kind \in {"undefined", "null"}
      \/ (rawSystemParams["energySources"].kind = "array"
          /\ Len(rawSystemParams["energySources"].items) = 0)
   THEN <<"energySources">> ELSE <<>>)
  \o (IF rawSystemParams["location"].kind \in {"undefined", "null"}
      THEN <<"location">> ELSE <<>>)
  \o (IF rawFinancialParams["electricityPrice"].kind = "undefined"
      THEN <<"electricityPrice">> ELSE <<>>)
  \o (IF rawFinancialParams["interestRate"].kind = "undefined"
      THEN <<"interestRate">> ELSE <<>>)

\* integrateAndAnalyze; weather is the outcome of the forecast service and the network
MLIntegrate(rawSystemParams, rawFinancialParams, weather) ==
  LET processedSystemParams ==
        FillMissingSystemData(ValidateData(rawSystemParams).normalizedData)
      processedFinancialParams ==
        FillMissingFinancialData(ValidateData(rawFinancialParams).normalizedData)
  IN MLData(processedSystemParams, processedFinancialParams,
            IF weather = Null THEN UnitWeather ELSE weather[1],
            IdentifyMissingDataFlags(rawSystemParams, rawFinancialParams),
            CalculateIntegratedConfidence(processedSystemParams, processedFinancialParams,
                                          weather))

IsTyped(rawData) == \A k \in DOMAIN rawData : rawData[k].kind \in {"number", "undefined"}

\* a call of MLDataIntegrator.integrateAndAnalyze with the financial record at hand
IntegrateAndAnalyzeCall(rawSystemParams, weather) ==
  /\ IsTyped(financialParams)
  /\ mlResults' = Some(MLIntegrate(rawSystemParams, financialParams, weather))
  /\ lastOp' = [op |-> "integrateAndAnalyze", rawSystemParams |-> rawSystemParams,
                rawFinancialParams |-> financialParams]
  /\ UNCHANGED <<services, mlModel, energySources, systemParams, financialParams, activeTab, inputMode,
                 integratedData, results, enhanced, edits>>

-----------------------------------------------------------------------------
(* Validation runs: the first App holds a system and a financial record,    *)
(* which are validated, calculated on and handed to the data integrator.    *)

\* the state the first App starts with
InitialFlatSystem ==
  [capacity |-> RawNum(R(10)), efficiency |-> RawNum(R(18)),
   gridEmissionFactor |-> RawNum(Q(19, 20)), operationalLifetime |-> RawNum(R(25)),
   costPerKw |-> RawNum(R(15000)), systemSize |-> RawNum(R(10)),
   installationCost |-> RawNum(R(150000)), dailyProductionHours |-> RawNum(R(5)),
   degradationRate |-> RawNum(Q(1, 2)), operationalCosts |-> RawNum(R(5000))]

InitialFlatFinancial ==
  [electricityPrice |-> RawNum(Q(11, 5)), electricityPriceIncrease |-> RawNum(R(8)),
   financingYears |-> RawNum(R(10)), interestRate |-> RawNum(R(7)),
   inflationRate |-> RawNum(R(5)), discountRate |-> RawNum(R(8))]

\* values the fields are given: in range, on a bound, out of range, suspicious,
\* not a number, text, absent
CapacityValues == {RawNum(R(10)), RawNum(Zero), RawNum(R(2000)), RawStr(<<"-", "5">>)}
EfficiencyValues == {RawNum(R(100)), RawNum(R(150))}
LifetimeValues == {RawNum(R(50)), RawNum(R(51)), RawNum(NaN)}
PriceValues == {RawNum(Q(11, 5)), RawNum(R(12)), RawStr(<<"R", "2", ".", "5">>), RawUndefined}
InterestValues == {RawNum(Zero), RawNum(R(7)), RawNum(R(101)), RawUndefined}
FinancingValues == {RawNum(R(10)), RawNum(Zero), RawUndefined}

FlatSystemSet ==
  {[InitialFlatSystem EXCEPT !.capacity = c, !.efficiency = e, !.operationalLifetime = l] :
     c \in CapacityValues, e \in EfficiencyValues, l \in LifetimeValues}

FlatFinancialSet ==
  {[InitialFlatFinancial EXCEPT !.electricityPrice = p, !.interestRate = i,
                                !.financingYears = y] :
     p \in PriceValues, i \in InterestValues, y \in FinancingValues}

\* the system records handed to the integrator; whatever a source object
\* holds, normalizeData keeps none of it
PartialSystemSet ==
  {[energySources |-> RawUndefined, gridEmissionFactor |-> RawUndefined,
    operationalLifetime |-> RawUndefined, location |-> RawUndefined],
   [energySources |-> RawArray(<<RawObject, RawObject>>),
    gridEmissionFactor |-> RawNum(Q(1, 2)), operationalLifetime |-> RawNum(R(20)),
    location |-> RawObject]}

\* Math.max(0.8, Math.min(1.2, predictionValue[0])) of a network whose weights
\* were drawn at random when the calculator was constructed
RiskFactors == {Q(4, 5), One}

\* the page is loaded again: the App starts from its useState values and the
\* module constructs a new calculator with a newly initialised network
Reload(model) ==
  /\ systemParams' = InitialFlatSystem
  /\ financialParams' = InitialFlatFinancial
  /\ results' = Null
  /\ activeTab' = "input"
  /\ mlModel' = model
  /\ lastOp' = [op |-> "reload", previous |-> results]
  /\ UNCHANGED <<services, energySources, mlResults, inputMode, integratedData, enhanced, edits>>
WeatherOutcomes == {Null} \cup {Some(w) : w \in WeatherFactorSet \ {UnitWeather}}

InitValidate ==
  /\ systemParams \in FlatSystemSet
  /\ financialParams \in FlatFinancialSet
  /\ energySources = <<>>
  /\ mlResults = Null
  /\ activeTab = "input"
  /\ inputMode = "enhanced"
  /\ integratedData = Null
  /\ results = Null
  /\ enhanced = Null
  /\ edits = 0
  /\ mlModel \in RiskFactors
  /\ ServicesConstructed
  /\ lastOp = [op |-> "init"]

NextValidate ==
  \/ CalculateResults(mlModel)
  \/ RunMLCalculations(mlModel)
  \/ \E model \in RiskFactors : Reload(model)
  \/ \E tab \in {"input", "ml", "financial"} : SelectTab(tab)
  \/ \E s \in PartialSystemSet, w \in WeatherOutcomes : IntegrateAndAnalyzeCall(s, w)

SpecValidate == InitValidate /\ [][NextValidate]_vars

-----------------------------------------------------------------------------
(* Properties of the validation runs *)

\* C8: when validation of the input fails, the run does not call the
\* financial metrics and its caller ends with the error list, not with results.
C8_NoCalculationAfterFailedValidation ==
  (lastOp.op \in {"calculateResults", "runMLCalculations"} /\ ~lastOp.isValid) =>
    /\ lastOp.metricsCalls = 0
    /\ lastOp.outcome = "errors"
    /\ Len(lastOp.errors) > 0

\* the numbers of a normalised record
NumbersOf(normalizedData) ==
  {k \in DOMAIN normalizedData : normalizedData[k].kind = "number"}

\* the range rules as the claim lists them
InRange(key, x) ==
  CASE key = "capacity" -> Gt(x, Zero)
    [] key = "efficiency" -> Gt(x, Zero) /\ Le(x, R(100))
    [] key = "electricityPrice" -> Gt(x, Zero)
    [] key = "interestRate" -> Ge(x, Zero) /\ Le(x, R(100))
    [] key = "operationalLifetime" -> Gt(x, Zero) /\ Le(x, R(50))
    [] OTHER -> TRUE

ValidAsClaimed(v) ==
  /\ v.isValid <=>
       \A k \in NumbersOf(v.normalizedData) :
         ~IsNaN(v.normalizedData[k].num) /\ InRange(k, v.normalizedData[k].num)
  /\ \A i \in 1..Len(v.errors) : v.errors[i].type \in {"missing", "invalid"}
  /\ \A k \in NumbersOf(v.normalizedData) :
       LET x == v.normalizedData[k].num
           suspicious == \/ (k = "capacity" /\ Gt(x, R(1000)))
                         \/ (k = "electricityPrice" /\ Gt(x, R(10)))
       IN suspicious <=> \E i \in 1..Len(v.warnings) : v.warnings[i].key = k

\* C9: validateData answers isValid = true exactly when no field of the
\* normalised record is NaN and no field breaks its range rule; a suspicious
\* value adds a warning and no error.
C9_ValidIffNoNaNAndInRange ==
  lastOp.op = "validateData" =>
    ValidAsClaimed(lastOp.system) /\ ValidAsClaimed(lastOp.financial)

C9_Witness ==
  /\ lastOp.op = "validateData"
  /\ lastOp.system.isValid /\ Len(lastOp.system.warnings) > 0
  /\ ~lastOp.financial.isValid

\* the number the caller supplied for a field, if it supplied one
Supplied(rawData, key) == rawData[key].kind = "number" /\ ~IsNaN(rawData[key].num)

\* C10: a numeric field of the returned configuration that does not hold the
\* caller's number is named in missingDataFlags.
C10_DefaultsAreFlagged ==
  (lastOp.op = "integrateAndAnalyze" /\ mlResults # Null) =>
    LET flags == {mlResults[1].missingDataFlags[i] :
                    i \in 1..Len(mlResults[1].missingDataFlags)}
        fp == mlResults[1].financialParams
        sp == mlResults[1].systemParams
    IN /\ \A k \in DOMAIN lastOp.rawFinancialParams :
            (Supplied(lastOp.rawFinancialParams, k)
               /\ fp[k] = lastOp.rawFinancialParams[k].num) \/ k \in flags
       /\ \A k \in {"gridEmissionFactor", "operationalLifetime"} :
            (Supplied(lastOp.rawSystemParams, k)
               /\ sp[k] = lastOp.rawSystemParams[k].num) \/ k \in flags

-----------------------------------------------------------------------------
(* utils/enhancedCalculations: calculateEnhancedEnergyGeneration *)

\* degradedProduction of one source in the lifetime loop, year = 1, 2, ...
\* weatherAdjustedFactors[type]: reading a key the object lacks gives undefined
WeatherFactor(weatherAdjustedFactors, type) ==
  IF type \in DOMAIN weatherAdjustedFactors THEN weatherAdjustedFactors[type] ELSE Undefined

EnhancedDegradedProduction(source, weatherAdjustedFactors, year) ==
  LET weatherFactor == Num(WeatherFactor(weatherAdjustedFactors, source.type))
      baseAnnualProduction ==
        Mul(Mul(Mul(source.capacity, source.dailyProductionHours), R(365)), weatherFactor)
  IN Mul(baseAnnualProduction,
         Pow(Sub(One, Div(source.degradationRate, R(100))), year - 1))

\* nothing in the body throws on numbers, so safeCalculation returns its value
CalculateEnhancedEnergyGeneration(sp, weatherAdjustedFactors) ==
  LET enabled == SelectEnabled(sp.energySources)
      dailyProduction ==
        SumSeq([i \in 1..Len(enabled) |->
                  Mul(Mul(enabled[i].capacity, enabled[i].dailyProductionHours),
                      Num(WeatherFactor(weatherAdjustedFactors, enabled[i].type)))])
  IN [daily |-> dailyProduction,
      monthly |-> Mul(dailyProduction, R(30)),
      yearly |-> Mul(dailyProduction, R(365)),
      lifetime |-> [y \in 1..LoopCount(sp.operationalLifetime) |->
                      [year |-> y,
                       energy |-> SumSeq([i \in 1..Len(enabled) |->
                                    EnhancedDegradedProduction(
                                      enabled[i], weatherAdjustedFactors, y)])]]]

-----------------------------------------------------------------------------
(* The engine's functions applied to inputs: an energy system for the energy  *)
(* functions, a list of cash flows for the metric functions.                  *)

\* the single-system calculations module (systemSize and one degradationRate):
\* annualProduction after k executions of  annualProduction *= (1 - degradationRate / 100)
RECURSIVE LegacyAnnualProduction(_, _)
LegacyAnnualProduction(sp, k) ==
  IF k = 0 THEN Mul(Mul(sp.systemSize, sp.dailyProductionHours), R(365))
  ELSE Mul(LegacyAnnualProduction(sp, k - 1), Sub(One, Div(sp.degradationRate, R(100))))

\* calculateEnergyGeneration of the single-system calculations module
LegacyCalculateEnergyGeneration(sp) ==
  [daily |-> Mul(sp.systemSize, sp.dailyProductionHours),
   monthly |-> Mul(Mul(sp.systemSize, sp.dailyProductionHours), R(30)),
   yearly |-> Mul(Mul(sp.systemSize, sp.dailyProductionHours), R(365)),
   lifetime |-> [y \in 1..LoopCount(sp.operationalLifetime) |->
                   [year |-> y, energy |-> LegacyAnnualProduction(sp, y - 1)]]]

\* a SystemParameters of the multi-source kind with at least one source
HasSources(sp) == "energySources" \in DOMAIN sp /\ sp.energySources # <<>>

\* a SystemParameters of the single-system kind
IsSingleSystem(sp) == "systemSize" \in DOMAIN sp

\* calculateEnergyGeneration(systemParams) of the single-system module
LegacyEnergyGenerationCall ==
  /\ IsSingleSystem(systemParams)
  /\ lastOp' = [op |-> "legacyCalculateEnergyGeneration", cashFlows |-> <<>>,
                energyGeneration |-> LegacyCalculateEnergyGeneration(systemParams)]
  /\ UNCHANGED <<services, mlModel, energySources, systemParams, financialParams, mlResults, activeTab,
                 inputMode, integratedData, results, enhanced, edits>>

\* calculateEnergyGeneration(systemParams)
EnergyGenerationCall ==
  /\ HasSources(systemParams)
  /\ lastOp' = [op |-> "calculateEnergyGeneration", cashFlows |-> <<>>,
                weatherFactors |-> UnitWeather,
                energyGeneration |-> CalculateEnergyGeneration(systemParams)]
  /\ UNCHANGED <<services, mlModel, energySources, systemParams, financialParams, mlResults, activeTab,
                 inputMode, integratedData, results, enhanced, edits>>

\* calculateEnhancedEnergyGeneration(integratedData) with the weather factors wf
EnhancedEnergyGenerationCall(wf) ==
  /\ HasSources(systemParams)
  /\ lastOp' = [op |-> "calculateEnhancedEnergyGeneration", cashFlows |-> <<>>,
                weatherFactors |-> wf,
                energyGeneration |-> CalculateEnhancedEnergyGeneration(systemParams, wf)]
  /\ UNCHANGED <<services, mlModel, energySources, systemParams, financialParams, mlResults, activeTab,
                 inputMode, integratedData, results, enhanced, edits>>

\* calculateEnhancedCarbonReduction(integratedData, energyGeneration): the body
\* of calculateCarbonReduction on integratedData.systemParams; nothing in it throws
CalculateEnhancedCarbonReduction(integrated, energyGeneration) ==
  CalculateCarbonReduction(integrated.systemParams, energyGeneration)

\* the energy record of the call before is at hand
EnergyRecordAtHand == HasSources(systemParams) /\ "energyGeneration" \in DOMAIN lastOp

\* calculateCarbonReduction(systemParams, energyGeneration)
CarbonReductionCall ==
  /\ EnergyRecordAtHand
  /\ lastOp' = [op |-> "calculateCarbonReduction", cashFlows |-> <<>>,
                weatherFactors |-> lastOp.weatherFactors,
                energyGeneration |-> lastOp.energyGeneration,
                carbonReduction |->
                  CalculateCarbonReduction(systemParams, lastOp.energyGeneration)]
  /\ UNCHANGED <<services, mlModel, energySources, systemParams, financialParams, mlResults, activeTab,
                 inputMode, integratedData, results, enhanced, edits>>

\* calculateEnhancedCarbonReduction(integratedData, energyGeneration)
EnhancedCarbonReductionCall ==
  /\ EnergyRecordAtHand
  /\ lastOp' = [op |-> "calculateEnhancedCarbonReduction", cashFlows |-> <<>>,
                weatherFactors |-> lastOp.weatherFactors,
                energyGeneration |-> lastOp.energyGeneration,
                carbonReduction |->
                  CalculateEnhancedCarbonReduction(
                    MLData(systemParams, financialParams, lastOp.weatherFactors, <<>>, One),
                    lastOp.energyGeneration)]
  /\ UNCHANGED <<services, mlModel, energySources, systemParams, financialParams, mlResults, activeTab,
                 inputMode, integratedData, results, enhanced, edits>>

\* the fields of WeatherData that calculateEnergyFactors reads
Weather(solarIrradiance, cloudCover, windSpeed, waterFlow, waveHeight) ==
  [solarIrradiance |-> solarIrradiance, cloudCover |-> cloudCover,
   windSpeed |-> windSpeed, waterFlow |-> waterFlow, waveHeight |-> waveHeight]

\* Math.max(0, Math.min(1, x))
ClampToUnit(x) == MaxNum(Zero, MinNum(One, x))

\* WeatherService.calculateEnergyFactors
CalculateEnergyFactors(weatherData) ==
  LET cloudReduction == Div(Sub(R(100), weatherData.cloudCover), R(100))
      solarFactor == Mul(Div(weatherData.solarIrradiance, R(1000)), cloudReduction)
      windFactor ==
        IF Ge(weatherData.windSpeed, R(3)) /\ Le(weatherData.windSpeed, R(25))
        THEN IF Le(weatherData.windSpeed, R(12))
             THEN Pow(Div(weatherData.windSpeed, R(12)), 3)
             ELSE One
        ELSE Zero
      hydroFactor ==
        IF Truthy(Num(weatherData.waterFlow))
        THEN MinNum(One, MaxNum(Zero, Div(Sub(weatherData.waterFlow, R(10)), R(90))))
        ELSE Q(7, 10)
      waveFactor ==
        IF Truthy(Num(weatherData.waveHeight))
        THEN MinNum(One, MaxNum(Zero, Div(Sub(weatherData.waveHeight, Q(1, 2)), Q(7, 2))))
        ELSE Q(3, 5)
  IN [solarFactor |-> ClampToUnit(solarFactor), windFactor |-> ClampToUnit(windFactor),
      hydroFactor |-> ClampToUnit(hydroFactor), waveFactor |-> ClampToUnit(waveFactor)]

\* MLDataIntegrator.calculateConventionalWeatherFactors: the first day stands for all
CalculateConventionalWeatherFactors(weatherData) ==
  LET energyFactors == CalculateEnergyFactors(weatherData[1])
  IN [t \in EnergyTypes |->
        IF t = "solar" THEN energyFactors.solarFactor
        ELSE IF t = "wind" THEN energyFactors.windFactor
        ELSE IF t = "hydro" THEN energyFactors.hydroFactor
        ELSE energyFactors.waveFactor]

\* MLDataIntegrator.calculateWeatherAdjustedFactors; prediction is Null when
\* there is no weather model or its predict call failed, else the four outputs
\* of the model's last layer
CalculateWeatherAdjustedFactors(weatherData, prediction) ==
  IF Len(weatherData) = 0 THEN UnitWeather
  ELSE IF prediction = Null THEN CalculateConventionalWeatherFactors(weatherData)
  ELSE prediction[1]

CalculateWeatherAdjustedFactorsCall(weatherData, prediction) ==
  /\ HasSources(systemParams)
  /\ lastOp' = [op |-> "calculateWeatherAdjustedFactors", cashFlows |-> <<>>,
                factors |-> CalculateWeatherAdjustedFactors(weatherData, prediction)]
  /\ UNCHANGED <<services, mlModel, energySources, systemParams, financialParams, mlResults, activeTab,
                 inputMode, integratedData, results, enhanced, edits>>

\* forecasts: none, the fallback day of the service, and days beyond each clamp
WeatherForecasts ==
  {<<>>,
   <<Weather(R(650), R(30), R(10), R(50), Q(3, 2))>>,
   <<Weather(R(1500), Zero, R(2), R(5), Q(3, 10))>>,
   <<Weather(Zero, R(100), R(30), R(200), R(5))>>,
   <<Weather(R(800), R(50), R(20), Undefined, Undefined)>>}

\* values of a sigmoid unit
SigmoidValues == {Zero, Q(1, 2), One}
Predictions == {Null} \cup {Some([t \in EnergyTypes |-> v]) : v \in SigmoidValues}

\* factor maps handed to the enhanced calculations: complete ones, one that
\* lacks every type but wind, and the empty object
EngineWeatherSet ==
  WeatherFactorSet \cup {[t \in {"wind"} |-> Q(1, 2)], [t \in {} |-> One]}

\* sources a user can type in: the degradation field takes any number
EngineSourceSet ==
  {Source("solar", TRUE, R(2), R(20), R(1000), R(1), Zero, R(100)),
   Source("solar", TRUE, R(2), R(20), R(1000), R(1), R(50), R(100)),
   Source("wind", TRUE, R(1), R(30), R(3000), R(2), R(25), R(200)),
   Source("wind", TRUE, R(1), R(30), R(3000), R(2), R(100), R(200)),
   Source("hydro", FALSE, R(3), R(80), R(2000), R(4), R(50), R(50))}

\* single systems: size, daily hours, degradation rate and lifetime
LegacySystems ==
  {[systemSize |-> R(2), dailyProductionHours |-> R(3), degradationRate |-> d,
    operationalLifetime |-> R(l)] : d \in {Zero, R(50), R(100)}, l \in 1..MaxLifetime}

\* lifetimes the forms accept (parseFloat): whole years and a year and a half
EngineLifetimes == {R(l) : l \in 1..MaxLifetime} \cup {Q(3, 2)}

EngineSystems ==
  {CompleteSystemParams(s, FormSystem(Q(19, 20), l)) :
     s \in {t \in UNION {[1..n -> EngineSourceSet] : n \in 1..MaxSources} :
              DistinctTypes(t)},
     l \in EngineLifetimes}

-----------------------------------------------------------------------------
(* utils/calculations.ts: calculateIRR *)

\* irr after `steps` executions of  irr += 0.1  (the binary64 sum differs from
\* steps/10 by less than 1e-11)
IrrAfter(steps) == Q(steps, 10)

\* irr < 100 of the loop condition, as binary64 decides it: 1000 additions of
\* 0.1 give 99.9999999999986, the next one gives 100.09999999999859
IrrBelowHundred(steps) == steps <= 1000

\* the while loop from `steps` additions on, followed up to `limit` additions:
\* the numbers of additions after which it can end, and whether it can go on
\* to `limit`.  An npv that is exactly 0 at a rate the additions only
\* approximate is computed as a tiny number of either sign, so the loop may
\* end there or go on.
RECURSIVE IrrScanTo(_, _, _)
IrrScanTo(cashFlows, steps, limit) ==
  IF steps = limit THEN [stops |-> {}, goesOn |-> TRUE]
  ELSE IF ~IrrBelowHundred(steps) THEN [stops |-> {steps}, goesOn |-> FALSE]
  ELSE IF Gt(CalculateNPV(cashFlows, IrrAfter(steps)), Zero)
  THEN IrrScanTo(cashFlows, steps + 1, limit)
  ELSE IF CalculateNPV(cashFlows, IrrAfter(steps)) = Zero /\ steps > 0
  THEN [stops |-> {steps} \cup IrrScanTo(cashFlows, steps + 1, limit).stops,
        goesOn |-> IrrScanTo(cashFlows, steps + 1, limit).goesOn]
  ELSE [stops |-> {steps}, goesOn |-> FALSE]

\* the numbers of additions after which the while loop can end, the loop
\* followed in stretches of 40 additions
RECURSIVE IrrScan(_, _)
IrrScan(cashFlows, steps) ==
  IF IrrScanTo(cashFlows, steps, steps + 40).goesOn
  THEN IrrScanTo(cashFlows, steps, steps + 40).stops \cup IrrScan(cashFlows, steps + 40)
  ELSE IrrScanTo(cashFlows, steps, steps + 40).stops

-----------------------------------------------------------------------------
(* utils/enhancedCalculations: the metric helpers with safeCalculation *)

\* validateNumericInput is not bound in this module (its only import brings
\* the types): the call throws a ReferenceError inside safeCalculation
ValidateNumericInputThrows == TRUE

\* calculateNPV: the fallback 0 when the guard throws
EnhancedCalculateNPV(cashFlows, discountRate) ==
  IF ValidateNumericInputThrows THEN Zero ELSE CalculateNPV(cashFlows, discountRate)

\* npvDerivative of the Newton-Raphson loop
RECURSIVE NpvDerivativeFrom(_, _, _)
NpvDerivativeFrom(cashFlows, irr, k) ==
  IF k <= 1 THEN Zero
  ELSE Sub(NpvDerivativeFrom(cashFlows, irr, k - 1),
           Div(Mul(R(k - 1), cashFlows[k]), Pow(Add(One, Div(irr, R(100))), k)))

NpvDerivative(cashFlows, irr) == NpvDerivativeFrom(cashFlows, irr, Len(cashFlows))

\* Math.abs(x) < 1e-10: a number of this model that is not 0 has a magnitude
\* of at least 2^-31
BelowDerivativeTolerance(x) == IsFinite(x) /\ x.n = 0

\* Math.abs(x) < 1e-6
BelowDeltaTolerance(x) ==
  IsFinite(x) /\ Lt(IF x.n < 0 THEN Neg(x) ELSE x, Q(1, 1000000))

\* newIrr = irr - (npv * 100) / npvDerivative
NewIrr(cashFlows, irr, npv) ==
  Sub(irr, Div(Mul(npv, R(100)), NpvDerivative(cashFlows, irr)))

\* the for loop of calculateIRR from iteration i on: the irr it leaves, the
\* iterations it completed and the test that ended it
RECURSIVE NewtonLoop(_, _, _, _)
NewtonLoop(cashFlows, irr, npv, i) ==
  IF i >= 100 THEN [irr |-> irr, steps |-> i, stopped |-> "budget"]
  ELSE IF BelowDerivativeTolerance(NpvDerivative(cashFlows, irr))
  THEN [irr |-> irr, steps |-> i, stopped |-> "derivative"]
  ELSE IF BelowDeltaTolerance(Sub(NewIrr(cashFlows, irr, npv), irr))
  THEN [irr |-> irr, steps |-> i, stopped |-> "delta"]
  ELSE NewtonLoop(cashFlows, NewIrr(cashFlows, irr, npv),
                  EnhancedCalculateNPV(cashFlows, NewIrr(cashFlows, irr, npv)), i + 1)

\* Math.max(-100, Math.min(100, irr))
ClampIrr(irr) == MaxNum(R(-100), MinNum(R(100), irr))

\* calculatePaybackPeriod of enhancedCalculations
EnhancedCalculatePaybackPeriod(cumulativeCashFlows) ==
  LET positiveIndex == PositiveIndex(cumulativeCashFlows) - 1
  IN IF positiveIndex <= 0 THEN R(Len(cumulativeCashFlows))
     ELSE LET previousYear == positiveIndex - 1
              previousValue == cumulativeCashFlows[previousYear + 1]
              currentValue == cumulativeCashFlows[positiveIndex + 1]
          IN Add(R(previousYear),
                 Div(AbsNum(previousValue), Sub(currentValue, previousValue)))

\* totalReturns as the net sum of all the cash flows
TotalReturnsMutant(cashFlowValues) == SumSeq(cashFlowValues)

\* totalReturns of calculateFinancialMetrics: the sum of the positive cash flows
TotalReturns(cashFlowValues) ==
  SumSeq(SelectSeq(cashFlowValues, LAMBDA cf : Gt(cf, Zero)))

-----------------------------------------------------------------------------
(* The metric functions applied to a list of cash flows *)

\* the record a call leaves in lastOp; no metric function throws to its caller
Returned(op, result) ==
  [op |-> op, cashFlows |-> lastOp.cashFlows, threw |-> FALSE, result |-> result]

\* calculateNPV(cashFlowValues, discountRate), the call of calculateFinancialMetrics
CalculateNPVCall(discountRate) ==
  /\ lastOp.cashFlows # <<>>
  /\ lastOp' = Returned("calculateNPV", CalculateNPV(lastOp.cashFlows, discountRate))
                 @@ [discountRate |-> discountRate]
  /\ UNCHANGED <<services, mlModel, energySources, systemParams, financialParams, mlResults, activeTab,
                 inputMode, integratedData, results, enhanced, edits>>

\* calculateNPV of enhancedCalculations
EnhancedCalculateNPVCall(discountRate) ==
  /\ lastOp.cashFlows # <<>>
  /\ lastOp' = Returned("enhancedCalculateNPV",
                        EnhancedCalculateNPV(lastOp.cashFlows, discountRate))
                 @@ [discountRate |-> discountRate]
  /\ UNCHANGED <<services, mlModel, energySources, systemParams, financialParams, mlResults, activeTab,
                 inputMode, integratedData, results, enhanced, edits>>

\* calculateIRR(cashFlowValues)
CalculateIRRCall ==
  /\ lastOp.cashFlows # <<>>
  /\ \E steps \in IrrScan(lastOp.cashFlows, 0) :
       lastOp' = Returned("calculateIRR", IrrAfter(steps))
                   @@ [steps |-> steps,
                       stopped |-> IF IrrBelowHundred(steps) THEN "npv" ELSE "limit"]
  /\ UNCHANGED <<services, mlModel, energySources, systemParams, financialParams, mlResults, activeTab,
                 inputMode, integratedData, results, enhanced, edits>>

\* what calculateIRR of enhancedCalculations returns after its loop ended as `out`
NewtonOutcome(out) ==
  Returned("enhancedCalculateIRR", ClampIrr(out.irr))
    @@ [steps |-> out.steps, stopped |-> out.stopped]

\* calculateIRR of enhancedCalculations: the loop starts at irr = 0
EnhancedCalculateIRRCall ==
  /\ lastOp.cashFlows # <<>>
  /\ lastOp' = NewtonOutcome(NewtonLoop(lastOp.cashFlows, Zero,
                                        EnhancedCalculateNPV(lastOp.cashFlows, Zero), 0))
  /\ UNCHANGED <<services, mlModel, energySources, systemParams, financialParams, mlResults, activeTab,
                 inputMode, integratedData, results, enhanced, edits>>

\* calculatePaybackPeriod(cumulativeCashFlows) on the list as the cumulative series
CalculatePaybackPeriodCall ==
  /\ lastOp.cashFlows # <<>>
  /\ lastOp' = Returned("calculatePaybackPeriod", CalculatePaybackPeriod(lastOp.cashFlows))
  /\ UNCHANGED <<services, mlModel, energySources, systemParams, financialParams, mlResults, activeTab,
                 inputMode, integratedData, results, enhanced, edits>>

\* calculatePaybackPeriod of enhancedCalculations
EnhancedCalculatePaybackPeriodCall ==
  /\ lastOp.cashFlows # <<>>
  /\ lastOp' = Returned("enhancedCalculatePaybackPeriod",
                        EnhancedCalculatePaybackPeriod(lastOp.cashFlows))
  /\ UNCHANGED <<services, mlModel, energySources, systemParams, financialParams, mlResults, activeTab,
                 inputMode, integratedData, results, enhanced, edits>>

\* totalReturns and calculateROI(totalInstallationCost, totalReturns) of
\* calculateFinancialMetrics
ReturnOnInvestment(cashFlowValues, totalInstallationCost) ==
  CalculateROI(totalInstallationCost, TotalReturns(cashFlowValues))

CalculateROICall(totalInstallationCost) ==
  /\ lastOp.cashFlows # <<>>
  /\ lastOp' = Returned("calculateROI",
                        ReturnOnInvestment(lastOp.cashFlows, totalInstallationCost))
                 @@ [totalInstallationCost |-> totalInstallationCost]
  /\ UNCHANGED <<services, mlModel, energySources, systemParams, financialParams, mlResults, activeTab,
                 inputMode, integratedData, results, enhanced, edits>>

\* cash flows of a year: outlays, idle years and revenues
CashFlowLists ==
  {<<R(-100)>>, <<Zero>>, <<R(100)>>,
   <<R(-100), R(110)>>, <<R(-100), R(50)>>, <<R(-100), R(-50)>>,
   <<R(-100), R(500)>>, <<R(100), R(-50)>>, <<R(-100), R(100)>>,
   <<R(-100), R(60), R(60)>>, <<R(-100), R(50), R(50)>>,
   <<R(-100), R(-50), R(200)>>, <<R(-100), R(230), R(-132)>>,
   <<R(100), R(-230), R(132)>>, <<R(-100), Zero, Zero>>,
   <<R(-100), R(-20), R(-30)>>, <<R(-100), R(500), R(500)>>,
   <<R(-100), R(150), R(-40)>>, <<R(50), R(-100), R(60)>>,
   <<R(-50), R(60), R(-100)>>}

\* discount rates: usable ones, a negative one and a non-finite one
DiscountRates == {Zero, R(100), R(-50), NaN}
InstallationCosts == {R(100), R(40)}

InitEngine ==
  /\ \/ /\ systemParams \in EngineSystems \cup LegacySystems
        /\ lastOp = [op |-> "init", cashFlows |-> <<>>]
     \/ /\ systemParams = CompleteSystemParams(<<>>, FormSystem(Q(19, 20), One))
        /\ lastOp \in {[op |-> "init", cashFlows |-> cf] : cf \in CashFlowLists}
  /\ energySources = IF HasSources(systemParams) THEN systemParams.energySources ELSE <<>>
  /\ financialParams = InitialFinancialParams
  /\ mlResults = Null
  /\ activeTab = "input"
  /\ inputMode = "manual"
  /\ integratedData = Null
  /\ results = Null
  /\ enhanced = Null
  /\ edits = 0
  /\ mlModel = One
  /\ ServicesConstructed

NextEngine ==
  \/ EnergyGenerationCall
  \/ LegacyEnergyGenerationCall
  \/ \E wf \in EngineWeatherSet : EnhancedEnergyGenerationCall(wf)
  \/ \E w \in WeatherForecasts, p \in Predictions : CalculateWeatherAdjustedFactorsCall(w, p)
  \/ CarbonReductionCall
  \/ EnhancedCarbonReductionCall
  \/ \E discountRate \in DiscountRates : CalculateNPVCall(discountRate)
  \/ \E discountRate \in DiscountRates : EnhancedCalculateNPVCall(discountRate)
  \/ CalculateIRRCall
  \/ EnhancedCalculateIRRCall
  \/ CalculatePaybackPeriodCall
  \/ EnhancedCalculatePaybackPeriodCall
  \/ \E cost \in InstallationCosts : CalculateROICall(cost)

SpecEngine == InitEngine /\ [][NextEngine]_vars

-----------------------------------------------------------------------------
(* Properties of the energy functions *)

EnergyOps == {"calculateEnergyGeneration", "calculateEnhancedEnergyGeneration"}

\* the annual output the call in lastOp computed for one source in year y
SourceOutput(source, y) ==
  IF lastOp.op = "calculateEnergyGeneration"
  THEN DegradedProduction(source, y - 1)
  ELSE EnhancedDegradedProduction(source, lastOp.weatherFactors, y)

\* a source the degradation claim speaks of
Degrading(source) ==
  /\ source.enabled
  /\ Gt(source.degradationRate, Zero)
  /\ Gt(source.capacity, Zero)
  /\ Gt(source.dailyProductionHours, Zero)

OutputDecreases(source) ==
  \A y \in 1..(Len(lastOp.energyGeneration.lifetime) - 1) :
    Lt(SourceOutput(source, y + 1), SourceOutput(source, y))

RECURSIVE PerSourceEnergy(_, _, _, _)
PerSourceEnergy(sources, weatherFactors, y, k) ==
  IF k = 0 THEN Zero
  ELSE Add(PerSourceEnergy(sources, weatherFactors, y, k - 1),
           IF sources[k].enabled
           THEN Mul(Mul(Mul(Mul(sources[k].capacity, sources[k].dailyProductionHours),
                            R(365)),
                        Num(WeatherFactor(weatherFactors, sources[k].type))),
                    Pow(Sub(One, Div(sources[k].degradationRate, R(100))), y - 1))
           ELSE Zero)

\* the energy of year y were one rate, the mean of the enabled sources' rates,
\* applied to the aggregate output
BlendedEnergy(sources, weatherFactors, y) ==
  LET enabled == SelectEnabled(sources)
      rate == Div(SumSeq([i \in 1..Len(enabled) |-> enabled[i].degradationRate]),
                  R(Len(enabled)))
  IN Mul(PerSourceEnergy(sources, weatherFactors, 1, Len(sources)),
         Pow(Sub(One, Div(rate, R(100))), y - 1))

\* the single system as the one source it is
AsSource(sp) ==
  Source("solar", TRUE, sp.systemSize, Zero, Zero, sp.dailyProductionHours,
         sp.degradationRate, Zero)

\* C12: the lifetime series has one entry per year of the lifetime, and the
\* entry of year y is the sum over the enabled sources of each source's own
\* output degraded by its own rate.
C12_PerSourceDegradation ==
  /\ lastOp.op \in EnergyOps =>
       /\ Len(lastOp.energyGeneration.lifetime) = LoopCount(systemParams.operationalLifetime)
       /\ \A y \in 1..Len(lastOp.energyGeneration.lifetime) :
            /\ lastOp.energyGeneration.lifetime[y].year = y
            /\ lastOp.energyGeneration.lifetime[y].energy =
                 PerSourceEnergy(systemParams.energySources, lastOp.weatherFactors, y,
                                 Len(systemParams.energySources))
  /\ lastOp.op = "legacyCalculateEnergyGeneration" =>
       /\ Len(lastOp.energyGeneration.lifetime) = LoopCount(systemParams.operationalLifetime)
       /\ \A y \in 1..Len(lastOp.energyGeneration.lifetime) :
            /\ lastOp.energyGeneration.lifetime[y].year = y
            /\ lastOp.energyGeneration.lifetime[y].energy =
                 PerSourceEnergy(<<AsSource(systemParams)>>, UnitWeather, y, 1)

\* two enabled sources with different rates, in a year where a blended rate
\* would give another number
C12_Witness ==
  /\ lastOp.op \in EnergyOps
  /\ \E i, j \in 1..Len(systemParams.energySources) :
       /\ systemParams.energySources[i].enabled
       /\ systemParams.energySources[j].enabled
       /\ systemParams.energySources[i].degradationRate #
            systemParams.energySources[j].degradationRate
  /\ \E y \in 2..Len(lastOp.energyGeneration.lifetime) :
       lastOp.energyGeneration.lifetime[y].energy #
         BlendedEnergy(systemParams.energySources, lastOp.weatherFactors, y)

-----------------------------------------------------------------------------
(* Properties of the metric functions *)

NpvOps == {"calculateNPV", "enhancedCalculateNPV"}

\* the plain sum of the first k cash flows
RECURSIVE PlainSum(_, _)
PlainSum(cashFlows, k) ==
  IF k = 0 THEN Zero ELSE Add(PlainSum(cashFlows, k - 1), cashFlows[k])

\* C13: with a discount rate of 0 the net present value is exactly the plain
\* sum of all the cash flows, the one of year 0 included.
C13_UndiscountedNpvIsSum ==
  (lastOp.op \in NpvOps /\ lastOp.discountRate = Zero) =>
    /\ ~lastOp.threw
    /\ lastOp.result = PlainSum(lastOp.cashFlows, Len(lastOp.cashFlows))

\* a discount rate the spec calls unusable
Unusable(discountRate) == ~IsFinite(discountRate) \/ Lt(discountRate, Zero)

\* C14: a negative or non-finite discount rate makes the computation end with
\* an error; it returns no net present value.
C14_UnusableDiscountRateRejected ==
  (lastOp.op \in NpvOps /\ Unusable(lastOp.discountRate)) => lastOp.threw

IrrOps == {"calculateIRR", "enhancedCalculateIRR"}

\* C15: calculateIRR ends without an exception and its result lies in the
\* closed interval from -100 to 100, whatever the cash flows are.
C15_IrrWithinBounds ==
  lastOp.op \in IrrOps =>
    /\ ~lastOp.threw
    /\ Le(R(-100), lastOp.result)
    /\ Le(lastOp.result, R(100))

\* C16: the solver starts from the rate 0, takes at most 100 steps, and ends
\* before its budget is used up only because the derivative or the change of
\* the rate dropped below its tolerance.
C16_IrrSolverStops ==
  lastOp.op \in IrrOps =>
    /\ lastOp.steps <= 100
    /\ lastOp.stopped \in {"budget", "derivative", "delta"}
    /\ (lastOp.stopped = "budget" => lastOp.steps = 100)

\* the solver gave up: its budget or its upper limit ended the iteration
GaveUp == lastOp.stopped \in {"budget", "limit"}

\* C17: a solver that did not converge reports so (an error or an
\* indeterminate result); it does not hand back an ordinary finite rate.
C17_NonConvergenceSurfaced ==
  (lastOp.op \in IrrOps /\ GaveUp) => (lastOp.threw \/ ~IsFinite(lastOp.result))

PaybackOps == {"calculatePaybackPeriod", "enhancedCalculatePaybackPeriod"}

\* the zero-based index findIndex returned for the series, -1 when there is none
FirstRecovered(cumulativeCashFlows) == PositiveIndex(cumulativeCashFlows) - 1

\* C18: when the cumulative series is already >= 0 at its first row, or is
\* >= 0 at no row, the payback function returns the full horizon length: the
\* value is not below the last year of the series, it is never 0, and both
\* implementations return the same value for the same series.
C18_PaybackSentinel ==
  (lastOp.op \in PaybackOps /\ FirstRecovered(lastOp.cashFlows) <= 0) =>
    /\ Ge(lastOp.result, R(Len(lastOp.cashFlows) - 1))
    /\ Gt(lastOp.result, Zero)
    /\ CalculatePaybackPeriod(lastOp.cashFlows) =
         EnhancedCalculatePaybackPeriod(lastOp.cashFlows)

\* the largest integer not above a number that is >= 0
Floor(x) == x.n \div x.d

\* the straight line through (i-1, cumulative[i-1]) and (i, cumulative[i]) at p
InterpolatedAt(cumulativeCashFlows, i, p) ==
  Add(cumulativeCashFlows[i],
      Mul(Sub(p, R(i - 1)),
          Sub(cumulativeCashFlows[i + 1], cumulativeCashFlows[i])))

\* C19: when the first year i whose cumulative cash flow is >= 0 is at least 1,
\* the payback period p lies in the interval i-1 < p <= i, the line between
\* the years i-1 and i is 0 at p, and the cumulative cash flow is strictly
\* negative at every year below floor(p).
C19_PaybackInterpolation ==
  (lastOp.op \in PaybackOps /\ FirstRecovered(lastOp.cashFlows) >= 1) =>
    LET i == FirstRecovered(lastOp.cashFlows)
        p == lastOp.result
    IN /\ Lt(R(i - 1), p)
       /\ Le(p, R(i))
       /\ InterpolatedAt(lastOp.cashFlows, i, p) = Zero
       /\ \A y \in 0..(Floor(p) - 1) : Lt(lastOp.cashFlows[y + 1], Zero)

\* a payback strictly between year 1 and year 2
C19_Witness ==
  /\ lastOp.op = "calculatePaybackPeriod"
  /\ FirstRecovered(lastOp.cashFlows) = 2
  /\ Lt(One, lastOp.result)
  /\ Lt(lastOp.result, R(2))

\* the sum of those of the first k cash flows that are strictly greater than 0
RECURSIVE PositiveSum(_, _)
PositiveSum(cashFlows, k) ==
  IF k = 0 THEN Zero
  ELSE IF Gt(cashFlows[k], Zero) THEN Add(PositiveSum(cashFlows, k - 1), cashFlows[k])
  ELSE PositiveSum(cashFlows, k - 1)

\* the schedule with the cash flow of position k lowered by an amount
MoreNegative(cashFlows, k, amount) == [cashFlows EXCEPT ![k] = Sub(@, amount)]

Lowerings == {One, R(1000)}

\* C20: the return on investment is (R - totalInstallationCost) /
\* totalInstallationCost * 100 with R the sum of the cash flows strictly
\* greater than 0; lowering a cash flow that is negative or zero leaves the
\* return on investment unchanged.
C20_RoiFromPositiveCashFlows ==
  lastOp.op = "calculateROI" =>
    LET cost == lastOp.totalInstallationCost
        returns == PositiveSum(lastOp.cashFlows, Len(lastOp.cashFlows))
    IN /\ lastOp.result = Mul(Div(Sub(returns, cost), cost), R(100))
       /\ \A k \in 1..Len(lastOp.cashFlows) : \A amount \in Lowerings :
            Le(lastOp.cashFlows[k], Zero) =>
              ReturnOnInvestment(MoreNegative(lastOp.cashFlows, k, amount), cost)
                = lastOp.result

\* a schedule with a revenue year and a negative year after year 0
C20_Witness ==
  /\ lastOp.op = "calculateROI"
  /\ \E k \in 2..Len(lastOp.cashFlows) : Lt(lastOp.cashFlows[k], Zero)
  /\ \E k \in 2..Len(lastOp.cashFlows) : Gt(lastOp.cashFlows[k], Zero)
  /\ Lt(lastOp.cashFlows[1], Zero)

-----------------------------------------------------------------------------
(* Properties of a whole calculation run *)

\* the energy of all the years of a run
LifetimeEnergyOf(run) == SumSeq(YearlyEnergy(run.systemParams))

\* C21: a run whose installation cost or whose lifetime energy is 0 ends with
\* an error and stores no result; the net present value, payback period,
\* return on investment and levelized cost of a stored result are finite.
C21_DivisionByZeroGuarded ==
  results # Null =>
    LET metrics == FinancialMetricsOf(results[1])
    IN /\ results[1].systemParams.totalInstallationCost # Zero
       /\ LifetimeEnergyOf(results[1]) # Zero
       /\ IsFinite(metrics.npv)
       /\ IsFinite(metrics.paybackPeriod)
       /\ IsFinite(metrics.roi)
       /\ IsFinite(metrics.lcoe)

CarbonOps == {"calculateCarbonReduction", "calculateEnhancedCarbonReduction"}

\* C22: every figure of the carbon reduction comes from the energy record
\* handed in: daily and yearly are the record's daily and yearly energy times
\* the grid emission factor, yearlyReduction has one entry per entry of the
\* record's lifetime series with the same year and that year's energy times
\* the factor, lifetime is the sum of those entries, and the financial benefit
\* is lifetime / 1000 * 190.
C22_CarbonFromEnergyRecord ==
  lastOp.op \in CarbonOps =>
    LET energy == lastOp.energyGeneration
        carbon == lastOp.carbonReduction
        factor == systemParams.gridEmissionFactor
        reductions == [i \in 1..Len(carbon.yearlyReduction) |->
                         carbon.yearlyReduction[i].reduction]
    IN /\ carbon.daily = Mul(energy.daily, factor)
       /\ carbon.yearly = Mul(energy.yearly, factor)
       /\ Len(carbon.yearlyReduction) = Len(energy.lifetime)
       /\ \A i \in 1..Len(energy.lifetime) :
            /\ carbon.yearlyReduction[i].year = energy.lifetime[i].year
            /\ carbon.yearlyReduction[i].reduction = Mul(energy.lifetime[i].energy, factor)
       /\ carbon.lifetime = PlainSum(reductions, Len(reductions))
       /\ carbon.financialBenefit = Mul(Div(carbon.lifetime, R(1000)), R(190))

\* a weather-adjusted energy record of several years with a degrading source:
\* not the record the conventional engine would compute for the system
C22_Witness ==
  /\ lastOp.op \in CarbonOps
  /\ Len(lastOp.energyGeneration.lifetime) >= 2
  /\ lastOp.energyGeneration # CalculateEnergyGeneration(systemParams)
  /\ lastOp.energyGeneration.lifetime[2].energy # lastOp.energyGeneration.lifetime[1].energy
  /\ lastOp.carbonReduction.lifetime # Zero

\* the factor map with 1.0 for every type it lacks
WithDefaultFactors(weatherFactors) ==
  [t \in EnergyTypes |-> IF t \in DOMAIN weatherFactors THEN weatherFactors[t] ELSE One]

\* every factor the provider produced lies between 0 and 1
FactorsWithinUnit ==
  lastOp.op = "calculateWeatherAdjustedFactors" =>
    \A t \in EnergyTypes : Le(Zero, lastOp.factors[t]) /\ Le(lastOp.factors[t], One)

\* C23: a source type without weather factor is computed with the multiplier
\* 1.0, so that with no factor at all the enhanced energy figures are those of
\* the computation without weather adjustment; and every factor the forecast
\* provider produces lies between 0 and 1.
C23_MissingFactorIsOne ==
  /\ lastOp.op = "calculateEnhancedEnergyGeneration" =>
       /\ lastOp.energyGeneration =
            CalculateEnhancedEnergyGeneration(systemParams,
                                              WithDefaultFactors(lastOp.weatherFactors))
       /\ DOMAIN lastOp.weatherFactors = {} =>
            lastOp.energyGeneration = CalculateEnergyGeneration(systemParams)
  /\ FactorsWithinUnit

\* the system of the goals form: one source of the given size with the form's
\* 5 daily production hours and grid emission factor 0.95
GoalSystem(systemSize) ==
  CompleteSystemParams(
    <<Source("solar", TRUE, systemSize, Zero, Zero, R(5), Zero, Zero)>>,
    FormSystem(Q(19, 20), One))

\* the goal metric as the energy model gives it for a system
MetricOf(selectedMetric, sp) ==
  LET energy == CalculateEnergyGeneration(sp)
  IN CASE selectedMetric = "daily" -> energy.daily
       [] selectedMetric = "monthly" -> energy.monthly
       [] selectedMetric = "yearly" -> energy.yearly
       [] selectedMetric = "carbon" -> CalculateCarbonReduction(sp, energy).yearly

\* C24: the system size the goal solver returns for a target, put back into
\* the energy model with the same daily hours and emission factor, gives the
\* target metric again to within 20% of the target.
C24_GoalRoundTrip ==
  lastOp.op = "handleGoalsCalculation" =>
    LET reproduced == MetricOf(lastOp.selectedMetric, GoalSystem(lastOp.systemSize))
        target == lastOp.numericValue
    IN /\ IsFinite(reproduced)
       /\ Le(AbsNum(Sub(reproduced, target)), Mul(target, Q(1, 5)))

\* a monthly target: the four estimates differ, the round trip is not exact
C24_Witness ==
  /\ lastOp.op = "handleGoalsCalculation"
  /\ lastOp.selectedMetric = "monthly"
  /\ MetricOf("monthly", GoalSystem(lastOp.systemSize)) # lastOp.numericValue

-----------------------------------------------------------------------------
(* Properties of the runs through the ML-enhanced calculator *)

RunOps == {"calculateResults", "runMLCalculations"}

\* a run leaves the records it was given as they were
InputsKept ==
  lastOp'.op \in RunOps =>
    systemParams' = systemParams /\ financialParams' = financialParams

\* the run stored by this step was given the inputs of the run stored before
\* the page was loaded again.  The stored run holds the inputs and the factor
\* its npv and irr were multiplied by.
SameInputsAsBefore ==
  /\ lastOp.op = "reload"
  /\ lastOp.previous # Null
  /\ lastOp'.op = "calculateResults"
  /\ results' # Null
  /\ results'[1].run.systemParams = lastOp.previous[1].run.systemParams
  /\ results'[1].run.financialParams = lastOp.previous[1].run.financialParams

\* C25: a calculation run changes none of its inputs, and two runs on equal
\* inputs return equal results, also through the ML-enhanced calculator.
C25_RunsAreDeterministic ==
  [][InputsKept /\ (SameInputsAsBefore => results'[1].run = lastOp.previous[1].run)]_vars

-----------------------------------------------------------------------------
(* The reference scenario.  Its powers (1 + 0.07/12)^120, 0.995^k and 1.08^k *)
(* have no exact value that fits the integers of the checker, so the loan   *)
(* payment, the revenues and the cumulative cash flows are enclosed between  *)
(* integer bounds, rounded outwards at every step; the payback period is     *)
(* computed by calculatePaybackPeriod on the lower and on the upper series.  *)

CeilDiv(a, b) == -((-a) \div b)

\* integer bounds of start * base^k for a rational base
RECURSIVE GrowthLowFrom(_, _, _)
GrowthLowFrom(start, base, k) ==
  IF k = 0 THEN start ELSE (GrowthLowFrom(start, base, k - 1) * base.n) \div base.d

RECURSIVE GrowthHighFrom(_, _, _)
GrowthHighFrom(start, base, k) ==
  IF k = 0 THEN start ELSE CeilDiv(GrowthHighFrom(start, base, k - 1) * base.n, base.d)

\* a year of twelve monthly steps, taken from a bound that is already known
GrowthLowYear(start, base) == IF start > 0 THEN GrowthLowFrom(start, base, 12) ELSE 0

GrowthHighYear(start, base) == IF start > 0 THEN GrowthHighFrom(start, base, 12) ELSE 0

\* integer bounds of 500000 * base^(12 * years)
RECURSIVE GrowthLow(_, _)
GrowthLow(base, years) ==
  IF years = 0 THEN 500000 ELSE GrowthLowYear(GrowthLow(base, years - 1), base)

RECURSIVE GrowthHigh(_, _)
GrowthHigh(base, years) ==
  IF years = 0 THEN 500000 ELSE GrowthHighYear(GrowthHigh(base, years - 1), base)

\* 1 + monthlyInterestRate
MonthlyBase(run) == Add(One, Div(Div(run.financialParams.interestRate, R(100)), R(12)))

\* numberOfPayments / 12
FinancingYears(run) == run.financialParams.financingYears.n

\* 12 * loanAmount * monthlyInterestRate: the interest of a year on the whole loan
InterestOfYear(run) ==
  Div(Mul(run.systemParams.totalInstallationCost, run.financialParams.interestRate), R(100))

\* bounds of yearlyLoanPayment = 12 * loanAmount * r * g / (g - 1), which is
\* interest + interest / (g - 1), for g = (1 + r)^numberOfPayments
YearlyLoanPaymentHigh(run) ==
  LET interest == CeilDiv(InterestOfYear(run).n, InterestOfYear(run).d)
      growth == GrowthLow(MonthlyBase(run), FinancingYears(run))
  IN interest + CeilDiv(interest * CeilDiv(500000000, growth - 500000), 1000) + 1

YearlyLoanPaymentLow(run) ==
  LET interest == InterestOfYear(run).n \div InterestOfYear(run).d
      growth == GrowthHigh(MonthlyBase(run), FinancingYears(run))
  IN interest + ((interest * (500000000 \div (growth - 500000))) \div 1000) - 1

\* revenue of year 1: the undegraded production at the starting price
FirstRevenue(run) ==
  Mul(AnnualProduction(run.systemParams.energySources, 0), run.financialParams.electricityPrice)

\* what the revenue of a single source gains from one year to the next:
\* (1 - degradationRate / 100) * (1 + electricityPriceIncrease / 100)
RevenueGrowth(run) ==
  Mul(Sub(One, Div(run.systemParams.energySources[1].degradationRate, R(100))),
      Add(One, Div(run.financialParams.electricityPriceIncrease, R(100))))

\* the operating costs and the loan payment of a year, rounded up and down
OutgoingsHigh(run, loanHigh, year) ==
  CeilDiv(run.systemParams.totalOperationalCosts.n, run.systemParams.totalOperationalCosts.d)
    + (IF Le(R(year), run.financialParams.financingYears) THEN loanHigh ELSE 0)

OutgoingsLow(run, loanLow, year) ==
  (run.systemParams.totalOperationalCosts.n \div run.systemParams.totalOperationalCosts.d)
    + (IF Le(R(year), run.financialParams.financingYears) THEN loanLow ELSE 0)

\* lower bounds of cumulativeCashFlow, row by row; `revenue` bounds the
\* revenue of the year that comes next
RECURSIVE CumulativeLow(_, _, _, _)
CumulativeLow(run, loanHigh, revenue, series) ==
  IF Len(series) > LoopCount(run.systemParams.operationalLifetime) THEN series
  ELSE CumulativeLow(run, loanHigh,
         ((revenue * RevenueGrowth(run).n) \div RevenueGrowth(run).d) - 1,
         Append(series, R(series[Len(series)].n + revenue
                            - OutgoingsHigh(run, loanHigh, Len(series)))))

\* upper bounds of cumulativeCashFlow, row by row
RECURSIVE CumulativeHigh(_, _, _, _)
CumulativeHigh(run, loanLow, revenue, series) ==
  IF Len(series) > LoopCount(run.systemParams.operationalLifetime) THEN series
  ELSE CumulativeHigh(run, loanLow,
         CeilDiv(revenue * RevenueGrowth(run).n, RevenueGrowth(run).d) + 1,
         Append(series, R(series[Len(series)].n + revenue
                            - OutgoingsLow(run, loanLow, Len(series)))))

\* row 0: the installation cost paid
InitialCumulativeLow(run) ==
  R((Neg(run.systemParams.totalInstallationCost)).n \div run.systemParams.totalInstallationCost.d)

InitialCumulativeHigh(run) ==
  R(CeilDiv((Neg(run.systemParams.totalInstallationCost)).n, run.systemParams.totalInstallationCost.d))

\* the payback period of the lower series: no run pays back later
PaybackLatest(run) ==
  CalculatePaybackPeriod(
    CumulativeLow(run, YearlyLoanPaymentHigh(run),
                  FirstRevenue(run).n \div FirstRevenue(run).d,
                  <<InitialCumulativeLow(run)>>))

\* the payback period of the upper series: no run pays back earlier
PaybackEarliest(run) ==
  CalculatePaybackPeriod(
    CumulativeHigh(run, YearlyLoanPaymentLow(run),
                   CeilDiv(FirstRevenue(run).n, FirstRevenue(run).d),
                   <<InitialCumulativeHigh(run)>>))

\* one enabled solar source of 10 kW, 5.2 hours a day, 15000 per kW, 0.5 %
\* degradation, 200 per kW and year of operating cost; 25 years; the price
\* 2.20 rising 8 % a year; 7 % interest over 10 years; 8 % discount rate
IsReference(run) ==
  /\ run.systemParams.energySources =
       <<Source("solar", TRUE, R(10), Q(37, 2), R(15000), Q(26, 5), Q(1, 2), R(200))>>
  /\ run.systemParams.operationalLifetime = R(25)
  /\ run.systemParams.totalOperationalCosts = R(2000)
  /\ run.financialParams = Financial(Q(11, 5), R(8), R(10), R(7), R(5), R(8))

\* C26: for the reference scenario the engine gives an installation cost of
\* 150000, a daily energy of 52 kWh, a revenue of 41756 in year 1, and a
\* payback period strictly between 0 and 25 years.
C26_ReferenceScenario ==
  (results # Null /\ IsReference(results[1])) =>
    /\ results[1].systemParams.totalInstallationCost = R(150000)
    /\ DailyProduction(results[1].systemParams.energySources) = R(52)
    /\ FirstRevenue(results[1]) = R(41756)
    /\ Gt(PaybackEarliest(results[1]), Zero)
    /\ Lt(PaybackLatest(results[1]), R(25))

\* the manual form submitted with the reference values
C26_Witness ==
  /\ results # Null
  /\ IsReference(results[1])
  /\ lastOp.op = "handleManualCalculation"

-----------------------------------------------------------------------------
(* The energy series of the financial metrics and of the energy table *)

\* C27: the yearly energy series calculateFinancialMetrics builds equals the
\* lifetime series of calculateEnergyGeneration position by position (the
\* same years, the same energies), and year 1 of the lifetime series equals
\* the yearly snapshot daily * 365.
C27_EnergySeriesAgree ==
  lastOp.op = "calculateEnergyGeneration" =>
    /\ Len(YearlyEnergy(systemParams)) = Len(lastOp.energyGeneration.lifetime)
    /\ \A k \in 1..Len(lastOp.energyGeneration.lifetime) :
         /\ k <= Len(YearlyEnergy(systemParams))
         /\ YearlyEnergy(systemParams)[k] = lastOp.energyGeneration.lifetime[k].energy
    /\ lastOp.energyGeneration.lifetime # <<>> =>
         lastOp.energyGeneration.lifetime[1].energy = lastOp.energyGeneration.yearly

\* the part that holds for every lifetime: the years of the table agree with
\* the entries of the financial series, and year 1 is the yearly snapshot
EnergySeriesAgreeOnTable ==
  lastOp.op = "calculateEnergyGeneration" =>
    /\ \A k \in 1..Len(lastOp.energyGeneration.lifetime) :
         /\ k <= Len(YearlyEnergy(systemParams))
         /\ YearlyEnergy(systemParams)[k] = lastOp.energyGeneration.lifetime[k].energy
    /\ lastOp.energyGeneration.lifetime # <<>> =>
         lastOp.energyGeneration.lifetime[1].energy = lastOp.energyGeneration.yearly

-----------------------------------------------------------------------------
(* EnhancedInputForm: what Calculate hands to the calculation *)

\* a step of EnhancedInputForm.handleCalculate
EnhancedCalculateStep ==
  FormMounted("enhanced") /\ lastOp'.op = "handleIntegratedCalculation"

\* the calculation was started on the sources, totals and financial
\* parameters the form shows
FormStateHandedOver ==
  /\ results' # Null
  /\ results'[1].systemParams.energySources = energySources
  /\ TotalsRecomputed([results'[1].systemParams EXCEPT !.energySources = energySources])
  /\ results'[1].financialParams = financialParams

\* C28: every Calculate of the enhanced form leads to onCalculate, also when
\* no integration result exists yet, and the energy sources, derived totals
\* and financial parameters handed over are those the form shows at that
\* moment, never those of an earlier ML integration.
C28_CalculateUsesFormState ==
  [][EnhancedCalculateStep => FormStateHandedOver]_vars

-----------------------------------------------------------------------------
(* LocalStorageManager under concurrent calls *)

\* the App as constructed; the utilities run beside it
AppConstructed ==
  /\ energySources = InitialEnergySources
  /\ systemParams = InitialSystemParams
  /\ financialParams = InitialFinancialParams
  /\ mlResults = Null
  /\ activeTab = "input"
  /\ inputMode = "enhanced"
  /\ integratedData = Null
  /\ results = Null
  /\ enhanced = Null
  /\ edits = 0
  /\ mlModel = One
  /\ lastOp = [op |-> "init"]

InitStorage == AppConstructed /\ ServicesConstructed

NextStorage ==
  \/ \E c \in Callers, op \in StorageOps : StorageCall(c, op)
  \/ \E c \in Callers : OpenSuccess(c)
  \/ \E c \in Callers : OpenError(c)
  \/ \E c \in Callers : DirectoriesCreated(c)
  \/ \E c \in Callers : StorageContinue(c)
  \/ \E c \in Callers, succeeded \in BOOLEAN : RequestSettles(c, succeeded)
  \/ \E c \in Callers : StorageReturn(c)

SpecStorage == InitStorage /\ [][NextStorage]_vars

\* C29: for any interleaving of storeData, retrieveData, queryData and
\* initialize calls, initializeIndexedDB runs once (and once more only after
\* an open request has failed), and no storeInIndexedDB runs while db is null.
C29_DatabaseOpenedOnce ==
  /\ localStorageManager.opened <= 1 + localStorageManager.openFailures
  /\ ~localStorageManager.storedWithoutDb

\* the part that holds: a call that gets past initialisation finds the database
StoreFindsDatabase ==
  /\ ~localStorageManager.storedWithoutDb
  /\ localStorageManager.isInitialized => localStorageManager.db # Null
  /\ \A c \in Callers :
       localStorageManager.calls[c].at \in {"initialized", "request"} =>
         localStorageManager.db # Null

-----------------------------------------------------------------------------
(* utils/errorHandling.ts: ErrorHandler *)

maxLogSize == 100

Severities == {"low", "medium", "high", "critical"}

\* the errors handed to handleError, <<error.constructor.name, severity>>, and
\* the milliseconds since the previous one
ErrorArrivals ==
  {<<<<"Error", "low">>, 0>>, <<<<"DataValidationError", "medium">>, 1>>,
   <<<<"CalculationError", "high">>, 0>>, <<<<"MLModelError", "critical">>, 1>>}

KindOf(i) ==
  CASE i % 4 = 0 -> <<"Error", "low">>
    [] i % 4 = 1 -> <<"DataValidationError", "medium">>
    [] i % 4 = 2 -> <<"CalculationError", "high">>
    [] OTHER -> <<"MLModelError", "critical">>

\* the ErrorReport handleError builds; error.id tells the Error objects apart
ErrorReport(timestamp, id, kind) ==
  [timestamp |-> timestamp, error |-> [name |-> kind[1], id |-> id],
   severity |-> kind[2], resolved |-> FALSE]

\* this.errorLog.slice(0, this.maxLogSize): the oldest reports kept
TruncateMutant(log) ==
  IF Len(log) > maxLogSize THEN SubSeq(log, 1, maxLogSize) ELSE log

\* if (length > maxLogSize) this.errorLog = this.errorLog.slice(-this.maxLogSize)
Truncate(log) ==
  IF Len(log) > maxLogSize THEN SubSeq(log, Len(log) - maxLogSize + 1, Len(log)) ELSE log

\* the handler after n errors of all kinds were handled, one per millisecond
HandlerAfter(n) ==
  [errorLog |-> [i \in 1..n |-> ErrorReport(i, i, KindOf(i))],
   handled |-> n, clearedAt |-> 0, now |-> n, limit |-> n + MaxErrors]

\* handleError(error, context, severity), `elapsed` ms after the previous call;
\* the console output and the type-specific handlers change no state
HandleError(kind, elapsed) ==
  /\ errorHandler.handled < errorHandler.limit
  /\ errorHandler' =
       [errorHandler EXCEPT
          !.errorLog = Truncate(Append(@, ErrorReport(errorHandler.now + elapsed,
                                                      errorHandler.handled + 1, kind))),
          !.handled = @ + 1,
          !.now = @ + elapsed]
  /\ UNCHANGED <<app, localStorageManager>>

\* the index errorLog.find(report => report.timestamp.getTime() === ...) stops
\* at, 0 if there is none
FindByTimestamp(log, timestamp) ==
  IF \E i \in 1..Len(log) : log[i].timestamp = timestamp
  THEN CHOOSE i \in 1..Len(log) :
         /\ log[i].timestamp = timestamp
         /\ \A j \in 1..(i - 1) : log[j].timestamp # timestamp
  ELSE 0

\* markErrorResolved(timestamp)
MarkErrorResolved(timestamp) ==
  /\ errorHandler' =
       IF FindByTimestamp(errorHandler.errorLog, timestamp) = 0 THEN errorHandler
       ELSE [errorHandler EXCEPT
               !.errorLog[FindByTimestamp(errorHandler.errorLog, timestamp)].resolved = TRUE]
  /\ UNCHANGED <<app, localStorageManager>>

\* clearErrorLog()
ClearErrorLog ==
  /\ errorHandler' = [errorHandler EXCEPT !.errorLog = <<>>, !.clearedAt = errorHandler.handled]
  /\ UNCHANGED <<app, localStorageManager>>

\* the counters of generateErrorSummary before the loop
EmptySummary ==
  [total |-> 0, bySeverity |-> [s \in Severities |-> 0], byType |-> <<>>, unresolved |-> 0]

\* one turn of the loop of generateErrorSummary
CountReport(summary, report) ==
  [summary EXCEPT
     !.bySeverity[report.severity] = @ + 1,
     !.byType = [name \in DOMAIN @ \cup {report.error.name} |->
                   (IF name \in DOMAIN @ THEN @[name] ELSE 0)
                     + (IF name = report.error.name THEN 1 ELSE 0)],
     !.unresolved = IF ~report.resolved THEN @ + 1 ELSE @]

\* the counters of two stretches of the log, added up
MergeSummaries(a, b) ==
  [total |-> 0,
   bySeverity |-> [s \in Severities |-> a.bySeverity[s] + b.bySeverity[s]],
   byType |-> [name \in DOMAIN a.byType \cup DOMAIN b.byType |->
                 (IF name \in DOMAIN a.byType THEN a.byType[name] ELSE 0)
                   + (IF name \in DOMAIN b.byType THEN b.byType[name] ELSE 0)],
   unresolved |-> a.unresolved + b.unresolved]

\* the counters after the loop has gone over log[first..last]
RECURSIVE CountReports(_, _, _)
CountReports(log, first, last) ==
  IF first > last THEN EmptySummary
  ELSE IF first = last THEN CountReport(EmptySummary, log[first])
  ELSE MergeSummaries(CountReports(log, first, (first + last) \div 2),
                      CountReports(log, ((first + last) \div 2) + 1, last))

\* generateErrorSummary()
GenerateErrorSummary(log) == [CountReports(log, 1, Len(log)) EXCEPT !.total = Len(log)]

\* timestamps a caller can ask to resolve: those of the oldest and of the two
\* newest reports, and one no report carries
ResolveTargets ==
  {errorHandler.errorLog[i].timestamp :
     i \in {1, Len(errorHandler.errorLog) - 1, Len(errorHandler.errorLog)}
             \cap DOMAIN errorHandler.errorLog}
  \cup {errorHandler.now + 1}

InitErrors ==
  /\ AppConstructed
  /\ localStorageManager = NewLocalStorageManager
  /\ errorHandler \in {NewErrorHandler, HandlerAfter(maxLogSize - 1)}

NextErrors ==
  \/ \E arrival \in ErrorArrivals : HandleError(arrival[1], arrival[2])
  \/ \E timestamp \in ResolveTargets : MarkErrorResolved(timestamp)
  \/ ClearErrorLog

SpecErrors == InitErrors /\ [][NextErrors]_vars

\* the figures of a summary against the log it was made of
SummaryAgrees(summary, log) ==
  /\ summary.total = Len(log)
  /\ summary.total = summary.bySeverity["low"] + summary.bySeverity["medium"]
                       + summary.bySeverity["high"] + summary.bySeverity["critical"]
  /\ summary.unresolved = Cardinality({i \in 1..Len(log) : ~log[i].resolved})

\* C30: the log holds at most 100 reports; they are the most recently handled
\* ones since the last clearErrorLog, in order of arrival; generateErrorSummary
\* gives total = log length = sum of the four bySeverity counts, and
\* unresolved = the number of reports not marked resolved.
C30_ErrorLogBounded ==
  /\ Len(errorHandler.errorLog) <= 100
  /\ Len(errorHandler.errorLog) =
       IF errorHandler.handled - errorHandler.clearedAt > 100 THEN 100
       ELSE errorHandler.handled - errorHandler.clearedAt
  /\ \A i \in 1..Len(errorHandler.errorLog) :
       errorHandler.errorLog[i].error.id
         = errorHandler.handled - Len(errorHandler.errorLog) + i
  /\ SummaryAgrees(GenerateErrorSummary(errorHandler.errorLog), errorHandler.errorLog)

\* the log is full, older reports have been dropped, and a report is resolved
C30_Witness ==
  /\ Len(errorHandler.errorLog) = 100
  /\ errorHandler.handled > 100
  /\ \E i \in 1..Len(errorHandler.errorLog) : errorHandler.errorLog[i].resolved

====
